---- MODULE Spec2Model ----
(***************************************************************************)
(* A model of the RO-Crate indexing engine (rocrate-indexer).              *)
(*                                                                         *)
(* Strings are sequences of tokens.  The token "/" is the only token that  *)
(* contains the character '/', the tokens ".", "#" and "-" are those       *)
(* single characters, "https:" and "http:" are the scheme with its colon,  *)
(* META is the file name ro-crate-metadata.json and PMETA a file name that  *)
(* ends in those characters (my-ro-crate-metadata.json).  Every other      *)
(* token is a run of characters holding none of '/', '#' and not beginning *)
(* with '.', so the character-level tests of the code (starts_with,        *)
(* ends_with, rfind('/'), trim_end_matches('/')) are decided on tokens.    *)
(***************************************************************************)
EXTENDS Integers, Sequences, FiniteSets, Bags, TLC

\* ------------------------------------------------------------ bounds

\* longest tail of a probed URL after the scheme
MaxTail == 4
\* longest probed entity id
MaxIdLen == 3
\* most fresh local ids (ULIDs) drawn in one run
MaxUlid == 1
\* most injected I/O faults in one run
MaxFaults == 1
\* deepest recursion of subcrate discovery the model follows
MaxDepth == 4
\* longest probed conformsTo array
MaxItems == 2
\* most request handlers running at a time
MaxThreads == 2
\* most fresh local ids drawn in one run of local sources only
MaxLocalAdds == 2
\* longest probed query string
MaxQuery == 4
\* the entities of a probed graph
MaxGraph == 3
\* most entries of a probed archive
MaxEntries == 3
\* most entity ids asked of a probed archive
MaxAsked == 2

\* ------------------------------------------------------------ strings

META == "ro-crate-metadata.json"
PMETA == "my-ro-crate-metadata.json"
SL == "/"

HTTPS == <<"https:", "/", "/">>
HTTP == <<"http:", "/", "/">>

StartsWith(s, p) == Len(s) >= Len(p) /\ SubSeq(s, 1, Len(p)) = p

EndsWith(s, p) == Len(s) >= Len(p) /\ SubSeq(s, Len(s) - Len(p) + 1, Len(s)) = p

\* str::trim_end_matches(suffix): strips the suffix as often as it occurs
RECURSIVE TrimEndMatches(_, _)
TrimEndMatches(s, p) ==
  IF Len(p) > 0 /\ EndsWith(s, p)
  THEN TrimEndMatches(SubSeq(s, 1, Len(s) - Len(p)), p)
  ELSE s

\* str::trim_start_matches(prefix)
RECURSIVE TrimStartMatches(_, _)
TrimStartMatches(s, p) ==
  IF Len(p) > 0 /\ StartsWith(s, p)
  THEN TrimStartMatches(SubSeq(s, Len(p) + 1, Len(s)), p)
  ELSE s

\* str::trim_matches('/')
TrimMatches(s, p) == TrimStartMatches(TrimEndMatches(s, p), p)

\* str::rfind('/'): the index of the last "/" token, 0 for None
RFind(s, c) ==
  IF \E i \in 1..Len(s) : s[i] = c
  THEN CHOOSE i \in 1..Len(s) : s[i] = c /\ \A j \in (i + 1)..Len(s) : s[j] # c
  ELSE 0

\* str::find('/')
Find(s, c) ==
  IF \E i \in 1..Len(s) : s[i] = c
  THEN CHOOSE i \in 1..Len(s) : s[i] = c /\ \A j \in 1..(i - 1) : s[j] # c
  ELSE 0

\* str::ends_with("ro-crate-metadata.json"), a test on characters
EndsWithMeta(s) == Len(s) > 0 /\ s[Len(s)] \in {META, PMETA}

\* starts_with("http://") || starts_with("https://")
IsAbsoluteAlways(s) == TRUE

IsAbsolute(s) == StartsWith(s, HTTP) \/ StartsWith(s, HTTPS)

\* ------------------------------------------------------------ loader.rs

\* normalize_url_for_id cutting after the last '/' instead of before it
normalize_url_keep_slash(url) ==
  LET u == TrimEndMatches(url, <<SL>>)
  IN  IF EndsWithMeta(u) /\ RFind(u, SL) > 0
      THEN SubSeq(u, 1, RFind(u, SL))
      ELSE u

\* normalize_url_for_id without the trim of trailing '/'
normalize_url_no_trim(url) ==
  IF EndsWithMeta(url) /\ RFind(url, SL) > 0
  THEN SubSeq(url, 1, RFind(url, SL) - 1)
  ELSE url

\* normalize_url_for_id
normalize_url_for_id(url) ==
  LET u == TrimEndMatches(url, <<SL>>)
  IN  IF EndsWithMeta(u) /\ RFind(u, SL) > 0
      THEN SubSeq(u, 1, RFind(u, SL) - 1)
      ELSE u

\* the ZipSubcrate arm of to_crate_id: the cleaned subpath
RSplitOncePath(s) ==
  IF RFind(s, SL) > 0 THEN SubSeq(s, 1, RFind(s, SL) - 1) ELSE s

clean_subpath(subpath) ==
  RSplitOncePath(TrimEndMatches(TrimMatches(subpath, <<SL>>), <<SL, META>>))

\* to_crate_id with the name alone as the id of a local source
to_crate_id_by_name(source, ulid) ==
  CASE source.kind = "Url" -> normalize_url_for_id(source.url)
    [] source.kind = "Directory" -> <<"local", SL>> \o source.name
    [] source.kind = "ZipFile" -> <<"local", SL>> \o source.name
    [] source.kind = "ZipSubcrate" ->
         source.parent_id \o <<SL>> \o clean_subpath(source.subpath)
    [] source.kind = "UrlSubcrate" -> normalize_url_for_id(source.metadata_url)

\* CrateSource::to_crate_id; ulid is the token Ulid::new() returns
to_crate_id(source, ulid) ==
  CASE source.kind = "Url" -> normalize_url_for_id(source.url)
    [] source.kind = "Directory" -> <<ulid, SL>> \o source.name
    [] source.kind = "ZipFile" -> <<ulid, SL>> \o source.name
    [] source.kind = "ZipSubcrate" ->
         source.parent_id \o <<SL>> \o clean_subpath(source.subpath)
    [] source.kind = "UrlSubcrate" -> normalize_url_for_id(source.metadata_url)

\* CrateSource::base_url (None is the empty string)
UpToLastSlash(s) ==
  IF RFind(s, SL) > 0 THEN SubSeq(s, 1, RFind(s, SL)) ELSE s \o <<SL>>

base_url(source) ==
  CASE source.kind = "Url" -> UpToLastSlash(normalize_url_for_id(source.url))
    [] source.kind = "UrlSubcrate" -> UpToLastSlash(source.metadata_url)
    [] OTHER -> <<>>

\* ------------------------------------------------------------ extract.rs

\* the index of the scheme token of the first "://" in s, 0 for None
SchemePos(s) ==
  LET hit(i) == s[i] \in {"https:", "http:"} /\ i + 2 <= Len(s)
                /\ s[i + 1] = SL /\ s[i + 2] = SL
  IN  IF \E i \in 1..Len(s) : hit(i)
      THEN CHOOSE i \in 1..Len(s) : hit(i) /\ \A j \in 1..(i - 1) : ~hit(j)
      ELSE 0

\* resolve_url(url, base); base = <<>> is None
resolve_url(url, base) ==
  IF IsAbsolute(url) THEN url
  ELSE IF base = <<>> THEN url
  ELSE LET b == TrimEndMatches(base, <<SL>>)
       IN  IF StartsWith(url, <<".", SL>>)
           THEN b \o <<SL>> \o SubSeq(url, 3, Len(url))
           ELSE IF StartsWith(url, <<SL>>)
           THEN LET idx == SchemePos(b)
                    rest == SubSeq(b, idx + 3, Len(b))
                    end == Find(rest, SL)
                IN  IF idx > 0 /\ end > 0
                    THEN SubSeq(b, 1, idx + 2 + end - 1) \o url
                    ELSE b \o url
           ELSE b \o <<SL>> \o url

\* resolve_id taking only http:// ids for absolute
resolve_id_http_only(entity_id, crate_base) ==
  IF StartsWith(entity_id, HTTP) THEN entity_id
  ELSE LET base == TrimEndMatches(crate_base, <<SL>>)
       IN  IF entity_id = <<".", SL>> THEN base
           ELSE IF StartsWith(entity_id, <<".", SL>>)
           THEN base \o <<SL>> \o SubSeq(entity_id, 3, Len(entity_id))
           ELSE IF StartsWith(entity_id, <<"#">>) THEN crate_base \o entity_id
           ELSE base \o <<SL>> \o entity_id

\* resolve_id joining a fragment to the trimmed base
resolve_id_trimmed_fragment(entity_id, crate_base) ==
  IF IsAbsolute(entity_id) THEN entity_id
  ELSE LET base == TrimEndMatches(crate_base, <<SL>>)
       IN  IF entity_id = <<".", SL>> THEN base
           ELSE IF StartsWith(entity_id, <<".", SL>>)
           THEN base \o <<SL>> \o SubSeq(entity_id, 3, Len(entity_id))
           ELSE IF StartsWith(entity_id, <<"#">>) THEN base \o entity_id
           ELSE base \o <<SL>> \o entity_id

\* resolve_id(entity_id, crate_base)
resolve_id(entity_id, crate_base) ==
  IF IsAbsolute(entity_id) THEN entity_id
  ELSE LET base == TrimEndMatches(crate_base, <<SL>>)
       IN  IF entity_id = <<".", SL>> THEN base
           ELSE IF StartsWith(entity_id, <<".", SL>>)
           THEN base \o <<SL>> \o SubSeq(entity_id, 3, Len(entity_id))
           ELSE IF StartsWith(entity_id, <<"#">>) THEN crate_base \o entity_id
           ELSE base \o <<SL>> \o entity_id

\* ------------------------------------------------------------ entities
\* An entity of @graph: hasId/id is "@id", types is "@type" as a list,
\* conformsTo is [shape, ids]: shape "none" (absent), "object" (ids: its string
\* @id, if it has one), "string" (ids: the string), "array" (ids: the items, each
\* of them such a record) or "other" (a number, a boolean, null),
\* subjectOf is [shape, ids]: shape "none", "object", "array" or "string",
\* words are the strings under the text fields.

NoSubject == [shape |-> "none", ids |-> <<>>]

NoConforms == [shape |-> "none", ids |-> <<>>]

ObjectWithId(id) == [shape |-> "object", ids |-> <<id>>]

Entity(id, types, conformsTo, subjectOf, words) ==
  [hasId |-> TRUE, id |-> id, types |-> types, conformsTo |-> conformsTo,
   subjectOf |-> subjectOf, words |-> words]

\* ROCRATE_PROFILE_PREFIX
ROCRATE_PROFILE_PREFIX == HTTPS \o <<"w3id.org", SL, "ro", SL, "crate">>

\* extract_id: Some(id) iff the entity has a string @id
extract_id_is_some(entity) == entity.hasId

\* extract_types
extract_types(entity) == entity.types

HasType(entity, t) == \E i \in DOMAIN extract_types(entity) : extract_types(entity)[i] = t

\* extract_text: the words of the text fields ("" when there are none)
extract_text(entity) == entity.words

\* the closure check_id of conforms_to_rocrate: v has a string @id that starts
\* with the prefix
check_id(v) ==
  /\ v.shape = "object"
  /\ Len(v.ids) > 0
  /\ StartsWith(v.ids[1], ROCRATE_PROFILE_PREFIX)

\* conforms_to_rocrate
conforms_to_rocrate(entity) ==
  LET conforms_to == entity.conformsTo
  IN  CASE conforms_to.shape = "object" -> check_id(conforms_to)
        [] conforms_to.shape = "array" ->
             \E i \in DOMAIN conforms_to.ids : check_id(conforms_to.ids[i])
        [] conforms_to.shape = "string" ->
             StartsWith(conforms_to.ids[1], ROCRATE_PROFILE_PREFIX)
        [] OTHER -> FALSE

\* id.contains("ro-crate-metadata") || id.ends_with(".json")
LooksLikeMetadata(id) ==
  \/ \E i \in DOMAIN id : id[i] \in {META, PMETA}
  \/ Len(id) > 0 /\ id[Len(id)] \in {META, PMETA, "crate.json"}

\* extract_subject_of_url: <<>> is None
extract_subject_of_url(entity) ==
  LET so == entity.subjectOf
  IN  CASE so.shape = "none" -> <<>>
        [] so.shape \in {"object", "string"} ->
             IF Len(so.ids) > 0 THEN so.ids[1] ELSE <<>>
        [] so.shape = "array" ->
             IF \E i \in DOMAIN so.ids : LooksLikeMetadata(so.ids[i])
             THEN so.ids[CHOOSE i \in DOMAIN so.ids :
                           /\ LooksLikeMetadata(so.ids[i])
                           /\ \A j \in 1..(i - 1) : ~LooksLikeMetadata(so.ids[j])]
             ELSE IF Len(so.ids) > 0 THEN so.ids[1] ELSE <<>>

\* the entities subcrate discovery looks at: a conforming Dataset with an @id
\* other than "./"
IsSubcrateEntity(entity) ==
  /\ HasType(entity, "Dataset")
  /\ conforms_to_rocrate(entity)
  /\ extract_id_is_some(entity)
  /\ entity.id # <<".", SL>>

\* find_potential_subcrates (get_subcrate_entity_ids): the ids, in graph order
RECURSIVE find_potential_subcrates(_)
find_potential_subcrates(entities) ==
  IF entities = <<>> THEN <<>>
  ELSE (IF IsSubcrateEntity(Head(entities)) THEN <<Head(entities).id>> ELSE <<>>)
       \o find_potential_subcrates(Tail(entities))

\* one SubcrateInfo of detect_subcrates_from_url
SubcrateInfoOf(entity, base) ==
  LET subject_of == extract_subject_of_url(entity)
      metadata_url == IF subject_of # <<>> THEN subject_of
                      ELSE TrimEndMatches(entity.id, <<SL>>) \o <<SL, META>>
      is_relative == ~IsAbsolute(metadata_url)
  IN  [entity_id |-> entity.id,
       metadata_url |-> IF is_relative THEN resolve_url(metadata_url, base)
                        ELSE metadata_url,
       is_relative |-> is_relative]

\* detect_subcrates_from_url(entities, base_url)
RECURSIVE detect_subcrates_from_url(_, _)
detect_subcrates_from_url(entities, base) ==
  IF entities = <<>> THEN <<>>
  ELSE (IF IsSubcrateEntity(Head(entities))
        THEN <<SubcrateInfoOf(Head(entities), base)>> ELSE <<>>)
       \o detect_subcrates_from_url(Tail(entities), base)

\* ------------------------------------------------------------ index.rs

\* a document whose occurs_in holds the entity's resolved id
document_occurs_in_entity(crate_id, entity) ==
  [id |-> resolve_id(entity.id, crate_id),
   occurs_in |-> resolve_id(entity.id, crate_id),
   entity_type |-> extract_types(entity), content |-> extract_text(entity)]

\* the document index_entities emits for one entity
Document(crate_id, entity) ==
  [id |-> resolve_id(entity.id, crate_id), occurs_in |-> crate_id,
   entity_type |-> extract_types(entity), content |-> extract_text(entity)]

\* index_entities that emits one document for each distinct entity
RECURSIVE index_entities_distinct(_, _)
index_entities_distinct(crate_id, entities) ==
  IF entities = <<>> THEN EmptyBag
  ELSE LET rest == index_entities_distinct(crate_id, Tail(entities))
           doc == Document(crate_id, Head(entities))
       IN  IF extract_id_is_some(Head(entities)) /\ ~BagIn(doc, rest)
           THEN SetToBag({doc}) (+) rest ELSE rest

\* index_entities: the documents added to the writer, as a bag
RECURSIVE index_entities(_, _)
index_entities(crate_id, entities) ==
  IF entities = <<>> THEN EmptyBag
  ELSE (IF extract_id_is_some(Head(entities))
        THEN SetToBag({Document(crate_id, Head(entities))}) ELSE EmptyBag)
       (+) index_entities(crate_id, Tail(entities))

\* the count index_entities returns
BagSize(b) == BagCardinality(b)

\* remove_crate deleting every document of the index
remove_crate_everything(docs, crate_id) == EmptyBag

\* remove_crate that deletes nothing
remove_crate_nothing(docs, crate_id) == docs

\* remove_crate deleting every document whose occurs_in begins with crate_id
remove_crate_by_prefix(docs, crate_id) ==
  [d \in {e \in DOMAIN docs : ~StartsWith(e.occurs_in, crate_id)} |-> docs[d]]

\* remove_crate: delete_term(occurs_in = crate_id) on the committed documents
remove_crate(docs, crate_id) ==
  [d \in {e \in DOMAIN docs : e.occurs_in # crate_id} |-> docs[d]]

\* the documents of one crate
DocsOf(docs, crate_id) ==
  [d \in {e \in DOMAIN docs : e.occurs_in = crate_id} |-> docs[d]]

\* ------------------------------------------------------------ query.rs
\* The searcher reads the documents of the last reload.  A query is a type name
\* or a word of the content; the limit is at least the number of matches.

\* collect_hits: the hit of each matching document
collect_hits(docs) == {[entity_id |-> d.id, crate_id |-> d.occurs_in] : d \in docs}

HasWord(d, word) == \E i \in DOMAIN d.content : d.content[i] = word

HasTypeTerm(d, type_name) == \E i \in DOMAIN d.entity_type : d.entity_type[i] = type_name

\* A query string is the sequence of its characters; the ten letters of
\* properties are one element, as are those of each other known field name.
QUOTE == "\""
BSL == "\\"

\* KNOWN_FIELDS
KNOWN_FIELDS ==
  {<<"i", "d">>, <<"occurs_in">>, <<"entity_type">>, <<"content">>, <<"properties">>}

\* c.is_alphabetic() || c == '_' || c == '@'
IsFieldStart(c) ==
  c \in {"i", "d", "occurs_in", "entity_type", "content", "properties", "_", "@"}

\* next.is_alphanumeric() || next == '_' || next == '.' || next == '@'
IsFieldChar(c) == IsFieldStart(c) \/ c \in {"1", "."}

\* the length of the longest prefix of s made of field characters
RECURSIVE WordLen(_)
WordLen(s) ==
  IF s # <<>> /\ IsFieldChar(Head(s)) THEN 1 + WordLen(Tail(s)) ELSE 0

\* word.split('.').next()
field_root(word) ==
  IF Find(word, ".") > 0 THEN SubSeq(word, 1, Find(word, ".") - 1) ELSE word

\* the loops of preprocess_query: Outside is the outer loop, InQuote the loop
\* that copies a quoted string (entered when quotes is set), known the field
\* roots that get no prefix
Rewrite(query_str, quotes, known) ==
  LET RECURSIVE Outside(_), InQuote(_)
      Outside(s) ==
        IF s = <<>> THEN <<>>
        ELSE IF quotes /\ Head(s) = QUOTE THEN <<QUOTE>> \o InQuote(Tail(s))
        ELSE IF IsFieldStart(Head(s))
        THEN LET n == WordLen(s)
                 word == SubSeq(s, 1, n)
                 rest == SubSeq(s, n + 1, Len(s))
             IN  IF rest # <<>> /\ Head(rest) = ":"
                 THEN (IF field_root(word) \in known THEN word
                       ELSE <<"properties", ".">> \o word)
                        \o <<":">> \o Outside(Tail(rest))
                 ELSE word \o Outside(rest)
        ELSE <<Head(s)>> \o Outside(Tail(s))
      InQuote(s) ==
        IF s = <<>> THEN <<>>
        ELSE IF Head(s) = QUOTE THEN <<QUOTE>> \o Outside(Tail(s))
        ELSE IF Head(s) = BSL /\ Len(s) > 1
        THEN <<BSL, s[2]>> \o InQuote(SubSeq(s, 3, Len(s)))
        ELSE <<Head(s)>> \o InQuote(Tail(s))
  IN  Outside(query_str)

\* preprocess_query that rewrites inside double quotes too
preprocess_query_in_quotes(query_str) == Rewrite(query_str, FALSE, KNOWN_FIELDS)

\* preprocess_query with the prefix on every field, the known ones included
preprocess_query_every_field(query_str) == Rewrite(query_str, TRUE, {})

\* QueryEngine::preprocess_query
preprocess_query(query_str) == Rewrite(query_str, TRUE, KNOWN_FIELDS)

\* TopDocs::with_limit(1000) of search_by_id
SEARCH_BY_ID_LIMIT == 1000

\* the documents of the reader that a query matches, with their copies
Matching(rd, hits) == [d \in hits |-> rd[d]]

\* searcher.search(query, TopDocs::with_limit(limit)): all the documents that
\* match when they are no more than limit, else limit of them; the scores
\* decide which, here one copy after the other is left out
RECURSIVE TopDocs(_, _)
TopDocs(matching, limit) ==
  IF BagCardinality(matching) <= limit THEN BagToSet(matching)
  ELSE TopDocs(matching (-) SetToBag({CHOOSE d \in BagToSet(matching) : TRUE}), limit)

\* QueryEngine::search
search(rd, word) == collect_hits({d \in DOMAIN rd : HasWord(d, word)})

\* QueryEngine::search_by_type
search_by_type(rd, type_name) ==
  collect_hits({d \in DOMAIN rd : HasTypeTerm(d, type_name)})

\* QueryEngine::search_by_id
search_by_id(rd, entity_id) ==
  collect_hits(TopDocs(Matching(rd, {d \in DOMAIN rd : d.id = entity_id}),
                       SEARCH_BY_ID_LIMIT))

\* QueryEngine::search_typed_content
search_typed_content(rd, type_name, word) ==
  collect_hits({d \in DOMAIN rd : HasTypeTerm(d, type_name) /\ HasWord(d, word)})

\* QueryEngine::find_crates_by_entity
find_crates_by_entity(rd, entity_id) == {h.crate_id : h \in search_by_id(rd, entity_id)}


\* ------------------------------------------------------------ the world
\* What lies outside the engine: the documents a web server serves, one zip
\* archive, and the JSON documents a client uploads.

H == HTTPS \o <<"h">>
IdA == H \o <<SL, "a">>
IdB == H \o <<SL, "b">>
IdD == H \o <<SL, "d">>

Conforms == ObjectWithId(ROCRATE_PROFILE_PREFIX \o <<SL, "1.1">>)

RootEntity(words) == Entity(<<".", SL>>, <<"Dataset">>, Conforms, NoSubject, words)

\* an entity with the same absolute @id in several graphs
SharedId == HTTPS \o <<"orcid">>
SharedEntity == Entity(SharedId, <<"Person">>, NoConforms, NoSubject, <<"smith">>)

\* A references B through subjectOf and the unreachable D by its @id alone
GraphA ==
  << RootEntity(<<"alpha">>),
     SharedEntity,
     Entity(<<"#", "p">>, <<"Person">>, NoConforms, NoSubject, <<"jones">>),
     Entity(IdB \o <<SL>>, <<"Dataset">>, Conforms,
            [shape |-> "object", ids |-> <<IdB \o <<SL, META>>>>], <<>>),
     Entity(IdD \o <<SL>>, <<"Dataset">>, Conforms, NoSubject, <<>>) >>

\* B references A back through the alias with a trailing slash, and itself
GraphB ==
  << RootEntity(<<"beta">>),
     SharedEntity,
     Entity(IdA \o <<SL>>, <<"Dataset">>, Conforms, NoSubject, <<>>),
     Entity(IdB, <<"Dataset">>, Conforms,
            [shape |-> "string", ids |-> <<IdB \o <<SL>>>>], <<>>) >>

Json(graph) == [json |-> TRUE, graph |-> graph]
Html == [json |-> FALSE, graph |-> <<>>]

\* the URLs that answer, and what they answer with
Web ==
  (IdA \o <<SL, META>>) :> Json(GraphA)
  @@ (IdB \o <<SL, META>>) :> Json(GraphB)
  @@ IdA :> Html

\* the URLs a client asks to add
UserUrls == {IdA \o <<SL>>, IdB \o <<SL, META>>, IdD}

\* the archive z.zip: its entries in archive order, and each entry's graph
ZipRootEntry == <<"root", SL, META>>
ZipSubEntry == <<"root", SL, "experiments", SL, META>>

ZipEntries == <<ZipRootEntry, ZipSubEntry>>

ZipGraphs ==
  ZipRootEntry :>
    << RootEntity(<<"zeta">>),
       Entity(<<".", SL, "experiments", SL>>, <<"Dataset">>, Conforms, NoSubject, <<>>) >>
  @@ ZipSubEntry :> << RootEntity(<<"runs">>), SharedEntity >>

ZipName == <<"z">>

\* the archive y.zip: the crate in a/ lists the Dataset ./a/, the name of its
\* own directory in the archive
LoopName == <<"y">>
LoopRootEntry == <<META>>
LoopSubEntry == <<"a", SL, META>>

LoopGraphs ==
  LoopRootEntry :>
    << RootEntity(<<"outer">>),
       Entity(<<".", SL, "a", SL>>, <<"Dataset">>, Conforms, NoSubject, <<>>) >>
  @@ LoopSubEntry :>
    << RootEntity(<<"inner">>),
       Entity(<<".", SL, "a", SL>>, <<"Dataset">>, Conforms, NoSubject, <<>>) >>

\* the archive w.zip: a folder with the crates a and b below its root crate
TwinName == <<"w">>
TwinRootEntry == <<"root", SL, META>>
TwinEntryA == <<"root", SL, "a", SL, META>>
TwinEntryB == <<"root", SL, "b", SL, META>>

TwinGraphs ==
  TwinRootEntry :>
    << RootEntity(<<"outer">>),
       Entity(<<".", SL, "a", SL>>, <<"Dataset">>, Conforms, NoSubject, <<>>),
       Entity(<<".", SL, "b", SL>>, <<"Dataset">>, Conforms, NoSubject, <<>>) >>
  @@ TwinEntryA :> << RootEntity(<<"alpha">>) >>
  @@ TwinEntryB :> << RootEntity(<<"beta">>) >>

\* ZipArchive::new(File::open(zip_path)): the entries in archive order, the graphs
ArchiveEntries(zip_path) ==
  CASE zip_path = ZipName -> ZipEntries
    [] zip_path = TwinName -> <<TwinRootEntry, TwinEntryA, TwinEntryB>>
    [] OTHER -> <<LoopRootEntry, LoopSubEntry>>

ArchiveGraphs(zip_path) ==
  CASE zip_path = ZipName -> ZipGraphs
    [] zip_path = TwinName -> TwinGraphs
    [] OTHER -> LoopGraphs

\* Path::file_name
FileName(path) == SubSeq(path, RFind(path, SL) + 1, Len(path))

\* the directory d: the directories that hold a metadata file, and their graphs;
\* the @graph of d/sub is empty
DirPath == <<"d">>

\* the directory n, which holds n/in, which holds n/in/deep, and the directory
\* /o outside of it; the @graph of n names ./in/ and /o/, that of n/in ./deep/
NestPath == <<"n">>
OutsidePath == <<SL, "o">>

DirGraphs ==
  DirPath :>
    << RootEntity(<<"delta">>),
       Entity(<<".", SL, "sub", SL>>, <<"Dataset">>, Conforms, NoSubject, <<>>),
       Entity(<<".", SL, "gone", SL>>, <<"Dataset">>, Conforms, NoSubject, <<>>) >>
  @@ (DirPath \o <<SL, "sub">>) :> << >>
  @@ NestPath :>
       << RootEntity(<<"delta">>),
          Entity(<<".", SL, "in", SL>>, <<"Dataset">>, Conforms, NoSubject, <<>>),
          Entity(<<SL, "o", SL>>, <<"Dataset">>, Conforms, NoSubject, <<>>) >>
  @@ (NestPath \o <<SL, "in">>) :>
       << Entity(<<".", SL, "deep", SL>>, <<"Dataset">>, Conforms, NoSubject, <<>>) >>
  @@ (NestPath \o <<SL, "in", SL, "deep">>) :> << >>
  @@ OutsidePath :> << >>

\* the uploaded documents by their name hints: one, which references B
Uploads ==
  <<"upload">> :>
    << RootEntity(<<"up">>),
       Entity(IdB \o <<SL>>, <<"Dataset">>, Conforms, NoSubject, <<>>) >>

\* Ulid::new(): the n-th fresh token
UlidToken(n) == "U" \o ToString(n)


\* ------------------------------------------------------------ loader.rs, I/O

\* fetch_url on the web given (the URLs that answer, and their bodies): Ok iff
\* the URL answers
fetch_url_ok(web, url) == url \in DOMAIN web

\* body.trim().starts_with('{')
LooksLikeJson(web, url) == fetch_url_ok(web, url) /\ web[url].json

\* fetch_metadata_from_url asking for the bare URL first
fetch_metadata_from_url_bare_first(web, url) ==
  IF EndsWithMeta(url)
  THEN [ok |-> fetch_url_ok(web, url), url |-> url, fetched |-> <<url>>]
  ELSE LET metadata_url == TrimEndMatches(url, <<SL>>) \o <<SL, META>>
       IN  IF LooksLikeJson(web, url)
           THEN [ok |-> TRUE, url |-> url, fetched |-> <<url>>]
           ELSE [ok |-> LooksLikeJson(web, metadata_url), url |-> metadata_url,
                 fetched |-> <<url, metadata_url>>]

\* fetch_metadata_from_url: [ok, url, fetched]; fetched lists the requests made
fetch_metadata_from_url(web, url) ==
  IF EndsWithMeta(url)
  THEN [ok |-> fetch_url_ok(web, url), url |-> url, fetched |-> <<url>>]
  ELSE LET metadata_url == TrimEndMatches(url, <<SL>>) \o <<SL, META>>
       IN  IF LooksLikeJson(web, metadata_url)
           THEN [ok |-> TRUE, url |-> metadata_url, fetched |-> <<metadata_url>>]
           ELSE [ok |-> LooksLikeJson(web, url), url |-> url,
                 fetched |-> <<metadata_url, url>>]

\* load_from_url: [ok, graph, fetched]; read_crate_obj parses what a JSON body holds
load_from_url(url) ==
  LET f == fetch_metadata_from_url(Web, url)
      parsed == f.ok /\ Web[f.url].json
  IN  [ok |-> parsed, graph |-> IF parsed THEN Web[f.url].graph ELSE <<>>,
       fetched |-> f.fetched]

\* find_root_metadata_in_zip: the index of the root metadata entry, 0 for Err
IsRootMetadataEntry(name) ==
  \/ RFind(name, SL) = 0 /\ EndsWithMeta(name)
  \/ /\ Cardinality({i \in DOMAIN name : name[i] = SL}) = 1
     /\ EndsWithMeta(name)

find_root_metadata_in_zip(entries) ==
  IF \E i \in DOMAIN entries : IsRootMetadataEntry(entries[i])
  THEN CHOOSE i \in DOMAIN entries :
         /\ IsRootMetadataEntry(entries[i])
         /\ \A j \in 1..(i - 1) : ~IsRootMetadataEntry(entries[j])
  ELSE 0

\* load_metadata_from_zip: by_name(entry_path), then parse
load_metadata_from_zip(zip_path, entry_path) ==
  IF entry_path \in DOMAIN ArchiveGraphs(zip_path)
  THEN [ok |-> TRUE, graph |-> ArchiveGraphs(zip_path)[entry_path], fetched |-> <<>>]
  ELSE [ok |-> FALSE, graph |-> <<>>, fetched |-> <<>>]

\* load_from_zip
load_from_zip(zip_path) ==
  LET i == find_root_metadata_in_zip(ArchiveEntries(zip_path))
  IN  IF i = 0 THEN [ok |-> FALSE, graph |-> <<>>, fetched |-> <<>>]
      ELSE load_metadata_from_zip(zip_path, ArchiveEntries(zip_path)[i])

\* load_from_directory_with_json; find_metadata_in_dir holds of the same directories
find_metadata_in_dir(path) == path \in DOMAIN DirGraphs

load_from_directory_with_json(path) ==
  IF find_metadata_in_dir(path)
  THEN [ok |-> TRUE, graph |-> DirGraphs[path], fetched |-> <<>>]
  ELSE [ok |-> FALSE, graph |-> <<>>, fetched |-> <<>>]

\* load_with_json
load_with_json(source) ==
  CASE source.kind = "Url" -> load_from_url(source.url)
    [] source.kind = "Directory" -> load_from_directory_with_json(source.path)
    [] source.kind = "UrlSubcrate" -> load_from_url(source.metadata_url)
    [] source.kind = "ZipFile" -> load_from_zip(source.name)
    [] source.kind = "ZipSubcrate" ->
         load_metadata_from_zip(source.zip_path, source.subpath)

\* the directory of an archive entry:
\* entry.trim_end_matches(|c| c != '/').trim_end_matches('/')
EntryDir(entry) == TrimEndMatches(SubSeq(entry, 1, RFind(entry, SL)), <<SL>>)

\* find_subcrate_metadata_in_zip: the (entity_id, entry) pairs
NormalizedEntityId(entity_id) ==
  TrimEndMatches(TrimStartMatches(entity_id, <<".", SL>>), <<SL>>)

\* an entry of any name in the directory of the entity
EntryMatchesAnyFile(entry, entity_id) ==
  \/ EntryDir(entry) = NormalizedEntityId(entity_id)
  \/ EndsWith(EntryDir(entry), <<SL>> \o NormalizedEntityId(entity_id))

\* an entry collected as a metadata file that lies in the directory of the entity
EntryMatches(entry, entity_id) ==
  /\ EndsWithMeta(entry)
  /\ \/ EntryDir(entry) = NormalizedEntityId(entity_id)
     \/ EndsWith(EntryDir(entry), <<SL>> \o NormalizedEntityId(entity_id))

RECURSIVE find_subcrate_metadata_in_zip(_, _)
find_subcrate_metadata_in_zip(entries, entity_ids) ==
  IF entity_ids = <<>> THEN <<>>
  ELSE LET id == Head(entity_ids)
           hit == {i \in DOMAIN entries : EntryMatches(entries[i], id)}
           first == CHOOSE i \in hit : \A j \in hit : i <= j
       IN  (IF hit = {} THEN <<>>
            ELSE <<[entity_id |-> id, entry |-> entries[first]]>>)
           \o find_subcrate_metadata_in_zip(entries, Tail(entity_ids))


\* ------------------------------------------------------------ lib.rs: CrateIndex
\* The state of the facade and of its base directory, as one record:
\*   manifest  the in-memory manifest (the crate ids)
\*   disk      manifest.json as last saved
\*   store     the ids in the CrateStore
\*   fts       the committed documents of the index, a bag
\*   reader    the documents the searcher sees (as of the last reload)
\*   files     the crate ids whose metadata file exists under metadata/
\*   ulid      the number of ULIDs drawn so far
\*   entries   the CrateEntry of each id of the in-memory manifest
\*   saved     the CrateEntry of each id of manifest.json as last saved
\*   log       the I/O steps of the running call, in order
\* A plan is the set of [id, point] steps at which an I/O error is injected.

Faulty(plan, id, point) == [id |-> id, point |-> point] \in plan

Logged(st, ev, arg) == [st EXCEPT !.log = Append(@, [ev |-> ev, arg |-> arg])]

\* an error that leaves a metadata file of the crate behind
FailedLeavingFile(st, id, point) ==
  Logged([st EXCEPT !.files = @ \cup {id}], "fault", [id |-> id, point |-> point])

\* the state an injected error leaves: the error is logged with its point
Failed(st, id, point) == Logged(st, "fault", [id |-> id, point |-> point])

RECURSIVE LoggedAll(_, _, _)
LoggedAll(st, ev, args) ==
  IF args = <<>> THEN st ELSE LoggedAll(Logged(st, ev, Head(args)), ev, Tail(args))

\* CrateEntry::new: the entry of a root-level crate
CrateEntry_new(crate_id) == [crate_id |-> crate_id, full_path |-> <<crate_id>>]

\* with_parent leaving the crate's own id out of its path
with_parent_only(crate_id, parent_path) ==
  [crate_id |-> crate_id, full_path |-> parent_path]

\* CrateEntry::with_parent: the entry of a subcrate under parent_path
CrateEntry_with_parent(crate_id, parent_path) ==
  [crate_id |-> crate_id, full_path |-> Append(parent_path, crate_id)]

\* CrateEntry::is_root
is_root(entry) == Len(entry.full_path) <= 1

\* CrateEntry::parent_id: <<>> is None
parent_id_of(entry) ==
  IF Len(entry.full_path) > 1 THEN entry.full_path[Len(entry.full_path) - 1]
  ELSE <<>>

\* Manifest::add_crate: a duplicate id replaces the entry
Manifest_add_crate(crates, entry) ==
  [id \in DOMAIN crates \cup {entry.crate_id} |->
     IF id = entry.crate_id THEN entry ELSE crates[id]]

\* Manifest::remove_crate
Manifest_remove_crate(crates, crate_id) ==
  [id \in DOMAIN crates \ {crate_id} |-> crates[id]]

\* the full_path of the parent a subcrate is added under: the path of the
\* parent's manifest entry
ParentPath(st, parent) ==
  IF parent \in DOMAIN st.entries THEN st.entries[parent].full_path ELSE <<parent>>

\* the entry the add pipeline puts in the manifest: a root entry for a crate
\* added by a client, a subcrate entry under the parent's path for a discovered one
EntryFor(crate_id, parent_path) ==
  IF parent_path = <<>> THEN CrateEntry_new(crate_id)
  ELSE CrateEntry_with_parent(crate_id, parent_path)

\* CrateIndex::is_indexed
is_indexed(st, crate_id) == crate_id \in st.manifest

\* remove_from_index without the reload of the reader
remove_from_index_no_reload(st, crate_id, plan) ==
  IF Faulty(plan, crate_id, "index")
  THEN [st |-> Failed(st, crate_id, "index"), ok |-> FALSE]
  ELSE LET committed == [st EXCEPT !.fts = remove_crate(@, crate_id)]
       IN  IF Faulty(plan, crate_id, "reload")
           THEN [st |-> Failed(committed, crate_id, "reload"), ok |-> FALSE]
           ELSE [st |-> committed, ok |-> TRUE]

\* CrateIndex::remove_from_index: [st, ok]
remove_from_index(st, crate_id, plan) ==
  IF Faulty(plan, crate_id, "index")
  THEN [st |-> Failed(st, crate_id, "index"), ok |-> FALSE]
  ELSE LET committed == [st EXCEPT !.fts = remove_crate(@, crate_id)]
       IN  IF Faulty(plan, crate_id, "reload")
           THEN [st |-> Failed(committed, crate_id, "reload"), ok |-> FALSE]
           ELSE [st |-> [committed EXCEPT !.reader = committed.fts], ok |-> TRUE]

\* index_crate returning the number of documents of the whole index
index_crate_counting_index(st, crate_id, entities, plan) ==
  LET Index(pre, docs) ==
        IF ~pre.ok THEN [st |-> pre.st, ok |-> FALSE, count |-> 0]
        ELSE IF Faulty(plan, crate_id, "index")
        THEN [st |-> Failed(pre.st, crate_id, "index"), ok |-> FALSE, count |-> 0]
        ELSE LET committed ==
                   Logged([pre.st EXCEPT !.fts = @ (+) docs], "commit", crate_id)
             IN  IF Faulty(plan, crate_id, "reload")
                 THEN [st |-> Failed(committed, crate_id, "reload"),
                       ok |-> FALSE, count |-> 0]
                 ELSE [st |-> [committed EXCEPT !.reader = committed.fts],
                       ok |-> TRUE, count |-> BagSize(committed.fts)]
  IN  Index(IF crate_id \in st.store
            THEN remove_from_index(st, crate_id, plan)
            ELSE [st |-> st, ok |-> TRUE],
            index_entities(crate_id, entities))

\* CrateIndex::index_crate: [st, ok, count]; pre is what the removal of the
\* crate's old documents returned (logged as "replace" when the Store holds the
\* crate), docs are the documents of the entities
index_crate(st, crate_id, entities, plan) ==
  LET Index(pre, docs) ==
        IF ~pre.ok THEN [st |-> pre.st, ok |-> FALSE, count |-> 0]
        ELSE IF Faulty(plan, crate_id, "index")
        THEN [st |-> Failed(pre.st, crate_id, "index"), ok |-> FALSE, count |-> 0]
        ELSE LET committed ==
                   Logged([pre.st EXCEPT !.fts = @ (+) docs], "commit", crate_id)
             IN  IF Faulty(plan, crate_id, "reload")
                 THEN [st |-> Failed(committed, crate_id, "reload"),
                       ok |-> FALSE, count |-> 0]
                 ELSE [st |-> [committed EXCEPT !.reader = committed.fts],
                       ok |-> TRUE, count |-> BagSize(docs)]
  IN  Index(IF crate_id \in st.store
            THEN remove_from_index(Logged(st, "replace", crate_id), crate_id, plan)
            ELSE [st |-> st, ok |-> TRUE],
            index_entities(crate_id, entities))

\* save_manifest that returns Ok without writing manifest.json
save_manifest_unwritten(st, crate_id) == Logged(st, "save", crate_id)

\* IndexConfig::save_manifest(&self.manifest) in the add of crate_id
save_manifest(st, crate_id) ==
  Logged([st EXCEPT !.disk = st.manifest, !.saved = st.entries], "save", crate_id)

\* the call that is about to load a subcrate of parent_id: the log keeps whether
\* the parent is in self.manifest and in manifest.json at that moment
Descend(st, parent_id) ==
  Logged(st, "descend", [id |-> parent_id, listed |-> parent_id \in st.manifest,
                         saved |-> parent_id \in st.disk])

\* the steps add_from_source, add_directory_subcrate and add_from_json share once
\* the crate is loaded: write the metadata file, index, store, manifest, save.
\* [st, ok, count].  The point "list", before the inserts into the store and the
\* manifest, is no I/O step and never fails: a plan names it only to cut the
\* call there, for the state a call is in while it runs.
Ingest(st, crate_id, parent_path, entities, plan) ==
  LET List(indexed) ==
        IF ~indexed.ok THEN [st |-> indexed.st, ok |-> FALSE, count |-> 0]
        ELSE IF Faulty(plan, crate_id, "list")
        THEN [st |-> Failed(indexed.st, crate_id, "list"), ok |-> FALSE, count |-> 0]
        ELSE
          LET listed ==
                Logged([indexed.st EXCEPT
                          !.store = @ \cup {crate_id},
                          !.manifest = @ \cup {crate_id},
                          !.entries = Manifest_add_crate(
                                        @, EntryFor(crate_id, parent_path))],
                       "manifest", crate_id)
          IN  IF Faulty(plan, crate_id, "save")
              THEN [st |-> Failed(listed, crate_id, "save"),
                    ok |-> FALSE, count |-> 0]
              ELSE [st |-> save_manifest(listed, crate_id),
                    ok |-> TRUE, count |-> indexed.count]
  IN  IF Faulty(plan, crate_id, "write")
      THEN [st |-> Failed(st, crate_id, "write"), ok |-> FALSE, count |-> 0]
      ELSE List(index_crate(
                  Logged([st EXCEPT !.files = @ \cup {crate_id}], "write", crate_id),
                  crate_id, entities, plan))

AddResult(crate_id, entity_count, subcrates) ==
  [crate_id |-> crate_id, entity_count |-> entity_count, subcrates |-> subcrates]

\* what a call that adds returns: the state, Ok or Err, the AddResult of an Ok,
\* and cut: the recursion was cut off at MaxDepth (the program is still recursing)
Returned(st, ok, res, cut) == [st |-> st, ok |-> ok, res |-> res, cut |-> cut]

RECURSIVE add_from_source(_, _, _, _)
RECURSIVE add_url_subcrates(_, _, _, _, _)
RECURSIVE add_zip_matches(_, _, _, _, _, _)
RECURSIVE add_directory_subcrates(_, _, _, _, _, _)

\* CrateIndex::add_directory_subcrate
add_directory_subcrate(st, crate_id, parent_path, dir_path, plan, depth) ==
  LET none == AddResult(crate_id, 0, <<>>)
      Finish(ing, sub) ==
        Returned(sub.st, TRUE, AddResult(crate_id, ing.count, sub.results), sub.cut)
      Discover(ing, graph) ==
        IF ~ing.ok THEN Returned(ing.st, FALSE, none, FALSE)
        ELSE Finish(ing, add_directory_subcrates(
                           ing.st, crate_id, dir_path,
                           find_potential_subcrates(graph), plan, depth))
      Add(loaded, st1) ==
        IF ~loaded.ok THEN Returned(st1, FALSE, none, FALSE)
        ELSE IF Faulty(plan, crate_id, "load")
        THEN Returned(Failed(st1, crate_id, "load"), FALSE, none, FALSE)
        ELSE Discover(Ingest(st1, crate_id, parent_path, loaded.graph, plan),
                      loaded.graph)
  IN  IF depth > MaxDepth THEN Returned(st, FALSE, none, TRUE)
      ELSE Add(load_from_directory_with_json(dir_path), Logged(st, "load", crate_id))

\* PathBuf::join: an absolute path replaces the base, an empty one leaves it
PathJoin(base, path) ==
  IF path = <<>> THEN base
  ELSE IF Head(path) = SL THEN path
  ELSE base \o <<SL>> \o path

\* CrateIndex::add_directory_subcrates, over the entity ids still to visit; r is
\* what the first of them returned (an Err is logged and skipped)
add_directory_subcrates(st, parent_id, dir_path, entity_ids, plan, depth) ==
  IF entity_ids = <<>>
  THEN [st |-> st, ok |-> TRUE, results |-> <<>>, cut |-> FALSE]
  ELSE
    LET subpath == NormalizedEntityId(Head(entity_ids))
        subdir == PathJoin(dir_path, subpath)
        subcrate_id == parent_id \o <<SL>> \o subpath
        skip == ~find_metadata_in_dir(subdir) \/ is_indexed(st, subcrate_id)
        Collect(r, rest) ==
          [st |-> rest.st, ok |-> TRUE,
           results |-> (IF r.ok THEN <<r.res>> ELSE <<>>) \o rest.results,
           cut |-> r.cut \/ rest.cut]
        Continue(r) ==
          Collect(r, add_directory_subcrates(r.st, parent_id, dir_path,
                                             Tail(entity_ids), plan, depth))
    IN  Continue(IF skip THEN Returned(st, FALSE, <<>>, FALSE)
                 ELSE add_directory_subcrate(Descend(st, parent_id), subcrate_id,
                                             ParentPath(st, parent_id),
                                             subdir, plan, depth + 1))

\* add_url_subcrates leaving the loop at the first subcrate that fails
add_url_subcrates_until_error(st, parent_id, subcrates, plan, depth) ==
  IF subcrates = <<>> THEN [st |-> st, results |-> <<>>, cut |-> FALSE]
  ELSE
    LET source == [kind |-> "UrlSubcrate", parent_id |-> parent_id,
                   metadata_url |-> Head(subcrates).metadata_url]
        skip == \/ ~IsAbsolute(Head(subcrates).metadata_url)
                \/ is_indexed(st, to_crate_id(source, ""))
        Collect(r, rest) ==
          [st |-> rest.st,
           results |-> (IF r.ok THEN <<r.res>> ELSE <<>>) \o rest.results,
           cut |-> r.cut \/ rest.cut]
        Continue(r, skipped) ==
          IF ~r.ok /\ ~skipped THEN [st |-> r.st, results |-> <<>>, cut |-> r.cut]
          ELSE Collect(r, add_url_subcrates(r.st, parent_id, Tail(subcrates),
                                            plan, depth))
    IN  Continue(IF skip THEN Returned(st, FALSE, <<>>, FALSE)
                 ELSE add_from_source(Descend(st, parent_id), source, plan, depth + 1),
                 skip)

\* CrateIndex::add_url_subcrates: [st, results, cut]
add_url_subcrates(st, parent_id, subcrates, plan, depth) ==
  IF subcrates = <<>> THEN [st |-> st, results |-> <<>>, cut |-> FALSE]
  ELSE
    LET source == [kind |-> "UrlSubcrate", parent_id |-> parent_id,
                   metadata_url |-> Head(subcrates).metadata_url]
        skip == \/ ~IsAbsolute(Head(subcrates).metadata_url)
                \/ is_indexed(st, to_crate_id(source, ""))
        Collect(r, rest) ==
          [st |-> rest.st,
           results |-> (IF r.ok THEN <<r.res>> ELSE <<>>) \o rest.results,
           cut |-> r.cut \/ rest.cut]
        Continue(r) ==
          Collect(r, add_url_subcrates(r.st, parent_id, Tail(subcrates), plan, depth))
    IN  Continue(IF skip THEN Returned(st, FALSE, <<>>, FALSE)
                 ELSE add_from_source(Descend(st, parent_id), source, plan, depth + 1))

\* the loop of add_zip_subcrates over the matches found in the archive
add_zip_matches(st, parent_id, zip_path, zip_matches, plan, depth) ==
  IF zip_matches = <<>> THEN [st |-> st, results |-> <<>>, cut |-> FALSE]
  ELSE
    LET source == [kind |-> "ZipSubcrate", parent_id |-> parent_id,
                   zip_path |-> zip_path, subpath |-> Head(zip_matches).entry]
        skip == is_indexed(st, to_crate_id(source, ""))
        Collect(r, rest) ==
          [st |-> rest.st,
           results |-> (IF r.ok THEN <<r.res>> ELSE <<>>) \o rest.results,
           cut |-> r.cut \/ rest.cut]
        Continue(r) ==
          Collect(r, add_zip_matches(r.st, parent_id, zip_path, Tail(zip_matches),
                                     plan, depth))
    IN  Continue(IF skip THEN Returned(st, FALSE, <<>>, FALSE)
                 ELSE add_from_source(Descend(st, parent_id), source, plan, depth + 1))

\* the subcrates detect_subcrates_from_url(entities, None) gives that are not relative
RECURSIVE NotRelative(_)
NotRelative(infos) ==
  IF infos = <<>> THEN <<>>
  ELSE (IF Head(infos).is_relative THEN <<>> ELSE <<Head(infos)>>)
       \o NotRelative(Tail(infos))

\* CrateIndex::add_zip_subcrates: [st, ok, results, cut]; the URL subcrates are
\* added first, then the archive is scanned, then the matches are added
add_zip_subcrates(st, parent_id, zip_path, entities, plan, depth) ==
  LET entity_ids == find_potential_subcrates(entities)
      Collect(urls, zips) ==
        [st |-> zips.st, ok |-> TRUE,
         results |-> urls.results \o zips.results,
         cut |-> urls.cut \/ zips.cut]
      Scan(urls) ==
        IF Faulty(plan, parent_id, "scan")
        THEN [st |-> Failed(urls.st, parent_id, "scan"), ok |-> FALSE,
              results |-> <<>>, cut |-> urls.cut]
        ELSE Collect(urls, add_zip_matches(
                             urls.st, parent_id, zip_path,
                             find_subcrate_metadata_in_zip(ArchiveEntries(zip_path),
                                                           entity_ids),
                             plan, depth))
  IN  IF entity_ids = <<>>
      THEN [st |-> st, ok |-> TRUE, results |-> <<>>, cut |-> FALSE]
      ELSE Scan(add_url_subcrates(
                  st, parent_id,
                  NotRelative(detect_subcrates_from_url(entities, <<>>)),
                  plan, depth))

\* CrateIndex::discover_and_add_subcrates: [st, ok, results, cut]
discover_and_add_subcrates(st, source, parent_id, entities, plan, depth) ==
  LET Always(r) == [st |-> r.st, ok |-> TRUE, results |-> r.results, cut |-> r.cut]
  IN  IF source.kind \in {"Url", "UrlSubcrate"}
      THEN Always(add_url_subcrates(
                    st, parent_id,
                    detect_subcrates_from_url(entities, base_url(source)),
                    plan, depth))
      ELSE IF source.kind \in {"ZipFile", "ZipSubcrate"}
      THEN add_zip_subcrates(st, parent_id,
                             IF source.kind = "ZipFile" THEN source.name
                             ELSE source.zip_path,
                             entities, plan, depth)
      ELSE add_directory_subcrates(st, parent_id, source.path,
                                   find_potential_subcrates(entities), plan, depth)

\* add_from_source from the load on, once the id is known not to be indexed
LoadAndAdd(st0, source, crate_id, plan, depth) ==
  LET none == AddResult(crate_id, 0, <<>>)
      Finish(ing, sub) ==
        Returned(sub.st, sub.ok,
                 IF sub.ok THEN AddResult(crate_id, ing.count, sub.results) ELSE none,
                 sub.cut)
      Discover(ing, graph) ==
        IF ~ing.ok THEN Returned(ing.st, FALSE, none, FALSE)
        ELSE Finish(ing, discover_and_add_subcrates(
                           ing.st, source, crate_id, graph, plan, depth))
      Add(loaded) ==
        LET st1 == Logged(LoggedAll(st0, "fetch", loaded.fetched), "load", crate_id)
        IN  IF ~loaded.ok THEN Returned(st1, FALSE, none, FALSE)
            ELSE IF Faulty(plan, crate_id, "load")
            THEN Returned(Failed(st1, crate_id, "load"), FALSE, none, FALSE)
            ELSE Discover(Ingest(st1, crate_id,
                                 IF source.kind \in {"UrlSubcrate", "ZipSubcrate"}
                                 THEN ParentPath(st1, source.parent_id) ELSE <<>>,
                                 loaded.graph, plan),
                          loaded.graph)
  IN  Add(load_with_json(source))

\* add_from_source with the cycle check on subcrates only
add_from_source_unchecked(st, source, plan, depth) ==
  LET Add(crate_id, st0) ==
        IF depth > MaxDepth
        THEN Returned(st0, FALSE, AddResult(crate_id, 0, <<>>), TRUE)
        ELSE IF depth > 0 /\ is_indexed(st0, crate_id)
        THEN Returned(st0, TRUE, AddResult(crate_id, 0, <<>>), FALSE)
        ELSE LoadAndAdd(st0, source, crate_id, plan, depth)
  IN  Add(to_crate_id(source, UlidToken(st.ulid + 1)),
          IF source.kind \in {"Directory", "ZipFile"}
          THEN [st EXCEPT !.ulid = @ + 1] ELSE st)

\* CrateIndex::add_from_source; a local source draws a ULID for its crate id
add_from_source(st, source, plan, depth) ==
  LET Add(crate_id, st0) ==
        IF depth > MaxDepth
        THEN Returned(st0, FALSE, AddResult(crate_id, 0, <<>>), TRUE)
        ELSE IF is_indexed(st0, crate_id)
        THEN Returned(st0, TRUE, AddResult(crate_id, 0, <<>>), FALSE)
        ELSE LoadAndAdd(st0, source, crate_id, plan, depth)
  IN  Add(to_crate_id(source, UlidToken(st.ulid + 1)),
          IF source.kind \in {"Directory", "ZipFile"}
          THEN [st EXCEPT !.ulid = @ + 1] ELSE st)

\* CrateIndex::add_from_json
add_from_json(st, entities, name_hint, plan) ==
  LET crate_id == <<UlidToken(st.ulid + 1), SL>> \o name_hint
      st0 == Logged([st EXCEPT !.ulid = @ + 1], "parse", crate_id)
      none == AddResult(crate_id, 0, <<>>)
      Finish(ing, sub) ==
        Returned(sub.st, TRUE, AddResult(crate_id, ing.count, sub.results), sub.cut)
      Discover(ing) ==
        IF ~ing.ok THEN Returned(ing.st, FALSE, none, FALSE)
        ELSE Finish(ing, add_url_subcrates(
                           ing.st, crate_id,
                           NotRelative(detect_subcrates_from_url(entities, <<>>)),
                           plan, 0))
  IN  IF is_indexed(st0, crate_id) THEN Returned(st0, TRUE, none, FALSE)
      ELSE Discover(Ingest(st0, crate_id, <<>>, entities, plan))

\* CrateIndex::remove: [st, ok]
remove(st, crate_id, plan) ==
  LET Drop(unindexed) ==
        LET dropped == [unindexed.st EXCEPT !.store = @ \ {crate_id}]
            deleted == [dropped EXCEPT !.files = @ \ {crate_id}]
            unlisted == [deleted EXCEPT !.manifest = @ \ {crate_id},
                                        !.entries = Manifest_remove_crate(@, crate_id)]
        IN  IF ~unindexed.ok THEN [st |-> unindexed.st, ok |-> FALSE]
            ELSE IF crate_id \in dropped.files /\ Faulty(plan, crate_id, "rmfile")
            THEN [st |-> Failed(dropped, crate_id, "rmfile"), ok |-> FALSE]
            ELSE IF Faulty(plan, crate_id, "save")
            THEN [st |-> Failed(unlisted, crate_id, "save"), ok |-> FALSE]
            ELSE [st |-> [unlisted EXCEPT !.disk = unlisted.manifest,
                                          !.saved = unlisted.entries],
                  ok |-> TRUE]
  IN  Drop(remove_from_index(st, crate_id, plan))

\* CrateIndex::get_crate_json: "None", or "Some" with the metadata file's text
get_crate_json(st, crate_id) ==
  IF crate_id \notin st.manifest THEN "None"
  ELSE IF crate_id \in st.files THEN "Some" ELSE "None"

\* CrateIndex::list_crates
list_crates(st) == st.manifest

\* CrateIndex::crate_count
crate_count(st) == Cardinality(st.manifest)

\* open_or_create_at without load_all_metadata
open_without_metadata(st) ==
  [st EXCEPT !.manifest = st.disk, !.entries = st.saved, !.store = {},
             !.reader = st.fts]

\* open_or_create_at with a Store entry for every id of the manifest
open_with_every_listed_crate(st) ==
  [st EXCEPT !.manifest = st.disk, !.entries = st.saved, !.store = st.disk,
             !.reader = st.fts]

\* an open that loads every metadata file of the base directory into the Store
open_with_every_file(st) ==
  [st EXCEPT !.manifest = st.disk, !.entries = st.saved, !.store = st.files,
             !.reader = st.fts]

\* CrateIndex::open_or_create_at on the base directory as it is, with
\* load_all_metadata: the store holds the manifest ids whose file exists
open_or_create_at(st) ==
  [st EXCEPT !.manifest = st.disk,
             !.entries = st.saved,
             !.store = {id \in st.disk : id \in st.files},
             !.reader = st.fts]


\* ------------------------------------------------------------ bin/server.rs

CrateAddedInfo(crate_id, entity_count, is_subcrate) ==
  [crate_id |-> crate_id, entity_count |-> entity_count, is_subcrate |-> is_subcrate]

\* collect_subcrates: the results and, after each, its own subcrates, as one list
RECURSIVE collect_subcrates(_)
collect_subcrates(results) ==
  IF results = <<>> THEN <<>>
  ELSE <<CrateAddedInfo(Head(results).crate_id, Head(results).entity_count, TRUE)>>
         \o collect_subcrates(Head(results).subcrates)
         \o collect_subcrates(Tail(results))

\* convert_add_result: the response of the add endpoints
convert_add_result(result) ==
  LET subcrates == collect_subcrates(result.subcrates) IN
  [primary_crate |-> CrateAddedInfo(result.crate_id, result.entity_count, FALSE),
   subcrates |-> subcrates,
   total_crates_added |-> 1 + Len(subcrates)]


\* ------------------------------------------------------------ the state machine

VARIABLES
  manifest, disk, store, fts, reader, files, ulid,  \* the facade's state (see above)
  crate_entries,  \* the CrateEntry of each crate id of the manifest
  saved_entries,  \* the entries of manifest.json as last saved
  log,     \* the I/O steps of the last call
  faults,  \* the number of calls an I/O error has left half done
  last,    \* the last call: what it was given and what it returned
  probe,   \* the last application of a pure function: its input and its result
  lock     \* the RwLock of the shared index: each handler's guard, job and view

vars == <<manifest, disk, store, fts, reader, files, ulid, crate_entries,
          saved_entries,
          log, faults, last, probe, lock>>

State ==
  [manifest |-> manifest, disk |-> disk, store |-> store, fts |-> fts,
   reader |-> reader, files |-> files, ulid |-> ulid,
   entries |-> crate_entries, saved |-> saved_entries, log |-> <<>>]

Becomes(st) ==
  /\ manifest' = st.manifest
  /\ disk' = st.disk
  /\ store' = st.store
  /\ fts' = st.fts
  /\ reader' = st.reader
  /\ files' = st.files
  /\ ulid' = st.ulid
  /\ crate_entries' = st.entries
  /\ saved_entries' = st.saved
  /\ log' = st.log

\* the record of a call: the operation, its argument, the crate id it is about,
\* fresh: that id was not in the manifest at the call, count0: crate_count at
\* the call, and what the call returned
\* and after: for a remove, the add that returned the removed id just before;
\* for an add, the add of the same source whose crate has just been removed
NoAdd == [op |-> "none", arg |-> <<>>, ok |-> FALSE, fresh |-> FALSE, count |-> 0]

Call(op, arg, id, ok, res, cut) ==
  [op |-> op, arg |-> arg, id |-> id, fresh |-> id \notin manifest,
   count0 |-> Cardinality(manifest), ok |-> ok, res |-> res, cut |-> cut,
   after |-> NoAdd]

NoCall == [op |-> "none", arg |-> <<>>, id |-> <<>>, fresh |-> TRUE, count0 |-> 0,
           ok |-> TRUE, res |-> AddResult(<<>>, 0, <<>>), cut |-> FALSE,
           after |-> NoAdd]

\* the handlers that can run at a time
Threads == 1..MaxThreads

\* no request: asked holds the request a handler was given, rivals are the
\* handlers that had an unanswered remove of the same id when it arrived
NoRequest == [op |-> "none", arg |-> <<>>, rivals |-> {}]

\* a handler that holds no guard of the lock: no request, no mutation to run,
\* nothing read; reply is the status it answered its request with
Idle ==
  [guard |-> "none", job |-> [op |-> "none"],
   view |-> [crates |-> {}, searchable |-> {}, during |-> FALSE],
   asked |-> NoRequest, reply |-> "none"]

\* CrateIndex::open_or_create_at on an empty base directory
Init ==
  /\ manifest = {}
  /\ disk = {}
  /\ store = {}
  /\ fts = EmptyBag
  /\ reader = EmptyBag
  /\ files = {}
  /\ ulid = 0
  /\ crate_entries = << >>
  /\ saved_entries = << >>
  /\ log = <<>>
  /\ faults = 0
  /\ last = NoCall
  /\ probe = [fn |-> "none"]
  /\ lock = [t \in Threads |-> Idle]

\* the crate ids of the n-th local source
LocalIds(n) ==
  { <<UlidToken(n), SL>> \o ZipName,
    <<UlidToken(n), SL>> \o ZipName \o <<SL, "root">>,
    <<UlidToken(n), SL, "upload">>,
    <<UlidToken(n), SL>> \o DirPath,
    <<UlidToken(n), SL>> \o DirPath \o <<SL, "sub">> }

\* the steps of an add at which an I/O error can be injected, and of a remove
AddPoints == {"load", "write", "index", "reload", "save", "scan"}
RemovePoints == {"index", "reload", "rmfile", "save"}

\* the plans of one call: no error, or one error at one point.  A load can fail
\* at any time; an error after the load leaves a call half done, and a run has
\* at most MaxFaults of those.
Plans(ids, points) ==
  {{}} \cup {{f} : f \in [id : ids, point : points \cap {"load"}]}
       \cup (IF faults < MaxFaults
              THEN {{f} : f \in [id : ids, point : points \ {"load"}]} ELSE {})

\* the errors of a plan that leave a call half done
HalfDone(plan) == Cardinality({f \in plan : f.point # "load"})

\* the errors a call ran into
Fired(st) == {st.log[i].arg : i \in {j \in DOMAIN st.log : st.log[j].ev = "fault"}}

\* the add of the same source whose returned crate the call before this one
\* removed with success, if there is one
AddBeforeRemove(kind, arg) ==
  IF last.op = "remove" /\ last.ok /\ last.after.op = kind /\ last.after.arg = arg
  THEN last.after ELSE NoAdd

\* a call of an adding operation ends: the state, the record of the call
Added(kind, arg, id, r, plan) ==
  /\ Fired(r.st) = plan
  /\ Becomes(r.st)
  /\ faults' = faults + HalfDone(plan)
  /\ last' = [Call(kind, arg, id, r.ok, r.res, r.cut)
                EXCEPT !.after = AddBeforeRemove(kind, arg)]
  /\ UNCHANGED <<probe, lock>>

\* add_from_source(Url(u))
AddUrl(u) ==
  \E plan \in Plans({IdA, IdB}, AddPoints \ {"scan"}) :
    LET source == [kind |-> "Url", url |-> u]
    IN  Added("add_url", u, to_crate_id(source, ""),
              add_from_source(State, source, plan, 0), plan)

\* add_from_source(ZipFile(z.zip)), while fewer than most ULIDs are drawn
AddZipWithin(most) ==
  /\ ulid < most
  /\ \E plan \in Plans(LocalIds(ulid + 1), AddPoints) :
       LET source == [kind |-> "ZipFile", name |-> ZipName]
       IN  Added("add_zip", ZipName, to_crate_id(source, UlidToken(ulid + 1)),
                 add_from_source(State, source, plan, 0), plan)

AddZip == AddZipWithin(MaxUlid)

\* add_from_source(Directory(d)), while fewer than most ULIDs are drawn
AddDirWithin(most) ==
  /\ ulid < most
  /\ \E plan \in Plans(LocalIds(ulid + 1), AddPoints \ {"scan"}) :
       LET source == [kind |-> "Directory", name |-> FileName(DirPath),
                      path |-> DirPath]
       IN  Added("add_dir", DirPath, to_crate_id(source, UlidToken(ulid + 1)),
                 add_from_source(State, source, plan, 0), plan)

AddDir == AddDirWithin(MaxUlid)

\* add_from_json(upload, "upload")
AddJson(name_hint) ==
  /\ ulid < MaxUlid
  /\ \E plan \in Plans(LocalIds(ulid + 1) \cup {IdB}, AddPoints \ {"scan"}) :
       Added("add_json", name_hint, <<UlidToken(ulid + 1), SL>> \o name_hint,
             add_from_json(State, Uploads[name_hint], name_hint, plan), plan)

\* the ids a client can name in a remove: what the base directory or the index
\* knows, one id that was never indexed, and the id it has just removed with success
Removable ==
  manifest \cup store \cup files \cup {d.occurs_in : d \in DOMAIN fts} \cup {IdD}
  \cup (IF last.op = "remove" /\ last.ok THEN {last.id} ELSE {})

\* the add that returned crate_id in the call before this one, if there is one
AddBefore(crate_id) ==
  IF last.op \in {"add_url", "add_zip", "add_dir", "add_json"} /\ last.id = crate_id
  THEN [op |-> last.op, arg |-> last.arg, ok |-> last.ok, fresh |-> last.fresh,
        count |-> last.res.entity_count]
  ELSE NoAdd

\* remove(crate_id)
Remove(crate_id) ==
  \E plan \in Plans({crate_id}, RemovePoints) :
    LET Removed(r) ==
          /\ Fired(r.st) = plan
          /\ Becomes(r.st)
          /\ faults' = faults + HalfDone(plan)
          /\ last' = [Call("remove", crate_id, crate_id, r.ok,
                           AddResult(crate_id, 0, <<>>), FALSE)
                        EXCEPT !.after = AddBefore(crate_id)]
          /\ UNCHANGED <<probe, lock>>
    IN  Removed(remove(State, crate_id, plan))

\* the process ends and CrateIndex::open_or_create_at runs on the same directory
Restart ==
  /\ Becomes(open_or_create_at(State))
  /\ last' = Call("restart", <<>>, <<>>, TRUE, AddResult(<<>>, 0, <<>>), FALSE)
  /\ UNCHANGED <<faults, probe, lock>>

Next ==
  \/ \E u \in UserUrls : AddUrl(u)
  \/ AddZip
  \/ AddDir
  \/ \E name_hint \in DOMAIN Uploads : AddJson(name_hint)
  \/ \E crate_id \in Removable : Remove(crate_id)
  \/ Restart

Spec == Init /\ [][Next]_vars

\* the operations on local sources only, the same source added more than once
NextLocal ==
  \/ AddZipWithin(MaxLocalAdds)
  \/ AddDirWithin(MaxLocalAdds)
  \/ \E crate_id \in Removable : Remove(crate_id)
  \/ Restart

SpecLocal == Init /\ [][NextLocal]_vars

\* the crate ids add_from_source(ZipFile(y.zip)) can reach with the n-th ULID
RECURSIVE LoopId(_, _)
LoopId(n, k) ==
  IF k = 0 THEN <<UlidToken(n), SL>> \o LoopName ELSE LoopId(n, k - 1) \o <<SL, "a">>

\* add_from_source(ZipFile(y.zip))
AddLoopZip ==
  /\ ulid < MaxUlid
  /\ \E plan \in Plans({LoopId(ulid + 1, k) : k \in 0..MaxDepth}, AddPoints) :
       LET source == [kind |-> "ZipFile", name |-> LoopName]
       IN  Added("add_zip", LoopName, to_crate_id(source, UlidToken(ulid + 1)),
                 add_from_source(State, source, plan, 0), plan)

\* the crate ids add_from_source(Directory(n)) can reach with the n-th ULID
NestIds(n) ==
  LET top == <<UlidToken(n), SL>> \o NestPath
  IN  {top, top \o <<SL, "in">>, top \o <<SL, "in", SL, "deep">>,
       top \o <<SL>> \o OutsidePath}

\* add_from_source(Directory(n))
AddNestDir ==
  /\ ulid < MaxUlid
  /\ \E plan \in Plans(NestIds(ulid + 1), AddPoints \ {"scan"}) :
       LET source == [kind |-> "Directory", name |-> FileName(NestPath),
                      path |-> NestPath]
       IN  Added("add_dir", NestPath, to_crate_id(source, UlidToken(ulid + 1)),
                 add_from_source(State, source, plan, 0), plan)

\* the operations on an index that is given the directory n
NextNest ==
  \/ AddNestDir
  \/ \E crate_id \in Removable : Remove(crate_id)
  \/ Restart

SpecNest == Init /\ [][NextNest]_vars

\* the crate ids add_from_source(ZipFile(w.zip)) can reach with the n-th ULID
TwinIds(n) ==
  LET top == <<UlidToken(n), SL>> \o TwinName
  IN  {top, top \o <<SL, "root">>, top \o <<SL, "a">>, top \o <<SL, "b">>,
       top \o <<SL, "root", SL, "a">>, top \o <<SL, "root", SL, "b">>}

\* add_from_source(ZipFile(w.zip))
AddTwinZip ==
  /\ ulid < MaxUlid
  /\ \E plan \in Plans(TwinIds(ulid + 1), AddPoints) :
       LET source == [kind |-> "ZipFile", name |-> TwinName]
       IN  Added("add_zip", TwinName, to_crate_id(source, UlidToken(ulid + 1)),
                 add_from_source(State, source, plan, 0), plan)

\* the operations on an index that is given the archive w.zip
NextTwin ==
  \/ AddTwinZip
  \/ \E crate_id \in Removable : Remove(crate_id)
  \/ Restart

SpecTwin == Init /\ [][NextTwin]_vars

\* the operations on an index that is given the archive y.zip
NextLoop ==
  \/ AddLoopZip
  \/ \E crate_id \in Removable : Remove(crate_id)
  \/ Restart

SpecLoop == Init /\ [][NextLoop]_vars

\* ------------------------------------------------------------ the pure functions
\* A second specification applies to_crate_id and resolve_id to inputs drawn from
\* bounded sets, once in a run, and records the application in probe.

\* the sequences over S of length at most n
Seqs(S, n) == UNION {[1..k -> S] : k \in 0..n}

\* the URLs probed: a host followed by a tail of segments and slashes
ProbedUrls == {H \o t : t \in Seqs({SL, "a", META, PMETA}, MaxTail)}

\* CrateSource::Url(url) and CrateSource::UrlSubcrate {metadata_url, ..}
UrlSource(kind, url) ==
  IF kind = "Url" THEN [kind |-> "Url", url |-> url]
  ELSE [kind |-> "UrlSubcrate", parent_id |-> <<>>, metadata_url |-> url]

\* the entity ids probed: relative ids, fragments, and two absolute ids
ProbedIds == Seqs({".", SL, "#", "a"}, MaxIdLen) \cup {SharedId, HTTP \o <<"x">>}

\* the crate bases probed: URL crate ids, local ids, and a bare scheme
CrateBases ==
  {IdA, IdA \o <<SL>>, HTTP \o <<"x">>, HTTPS,
   <<UlidToken(1), SL>> \o ZipName, <<UlidToken(1), SL>> \o ZipName \o <<SL, "root">>}

\* the conformsTo strings probed: the prefix, the prefix followed by '/', by a
\* version and by other characters, another profile, and the empty string
ProbedProfiles ==
  {ROCRATE_PROFILE_PREFIX, ROCRATE_PROFILE_PREFIX \o <<SL>>,
   ROCRATE_PROFILE_PREFIX \o <<SL, "1.1">>, ROCRATE_PROFILE_PREFIX \o <<"x">>,
   HTTPS \o <<"example.org", SL, "other">>, <<>>}

\* the conformsTo values probed that are not arrays: objects with and without
\* a string @id, strings, and a value that is neither
ProbedItems ==
  {ObjectWithId(v) : v \in ProbedProfiles}
    \cup {[shape |-> "string", ids |-> <<v>>] : v \in ProbedProfiles}
    \cup {[shape |-> "object", ids |-> <<>>], [shape |-> "other", ids |-> <<>>]}

ProbedConformsTo ==
  {NoConforms} \cup ProbedItems
    \cup {[shape |-> "array", ids |-> items] : items \in Seqs(ProbedItems, MaxItems)}

Untouched ==
  UNCHANGED <<manifest, disk, store, fts, reader, files, ulid, crate_entries,
              saved_entries,
              log, faults, last, lock>>

\* to_crate_id of a URL source, with the n-th ULID at hand
ProbeToCrateId(kind, url, n) ==
  /\ probe.fn = "none"
  /\ probe' = [fn |-> "to_crate_id", kind |-> kind, x |-> url,
               out |-> to_crate_id(UrlSource(kind, url), UlidToken(n))]
  /\ Untouched

\* the SubcrateInfo discover_and_add_subcrates gets for the conforming Dataset
\* ./x/ of the crate loaded from source
SubcrateOfX(source) ==
  detect_subcrates_from_url(
    <<Entity(<<".", SL, "x", SL>>, <<"Dataset">>, Conforms, NoSubject, <<>>)>>,
    base_url(source))[1]

\* base_url of Url(url) and of UrlSubcrate {metadata_url: url}, with the crate
\* id and the metadata URL the subcrate ./x/ is resolved to
ProbeBaseUrl(url) ==
  /\ probe.fn = "none"
  /\ probe' = [fn |-> "base_url", x |-> url,
               out |-> [crate_id |-> to_crate_id(UrlSource("Url", url), ""),
                        of_url |-> base_url(UrlSource("Url", url)),
                        of_subcrate |-> base_url(UrlSource("UrlSubcrate", url)),
                        x_of_url |-> SubcrateOfX(UrlSource("Url", url)).metadata_url,
                        x_of_subcrate |->
                          SubcrateOfX(UrlSource("UrlSubcrate", url)).metadata_url]]
  /\ Untouched

\* resolve_id(x, base)
ProbeResolveId(x, base) ==
  /\ probe.fn = "none"
  /\ probe' = [fn |-> "resolve_id", x |-> x, base |-> base,
               out |-> resolve_id(x, base)]
  /\ Untouched

\* the query strings probed: letters, a known field name, a digit, '.', ':', a
\* double quote, a backslash and a space
ProbedQueries ==
  Seqs({"i", "d", "properties", "1", ".", ":", QUOTE, BSL, " "}, MaxQuery)

\* preprocess_query(x)
ProbePreprocessQuery(x) ==
  /\ probe.fn = "none"
  /\ probe' = [fn |-> "preprocess_query", x |-> x, out |-> preprocess_query(x)]
  /\ Untouched

\* the webs probed: each of three locations is down, answers with a JSON body
\* or answers with another body
ProbedWebs ==
  UNION {[up -> {Json(<<>>), Html}] :
           up \in SUBSET {IdA, IdA \o <<SL, META>>, IdA \o <<SL, PMETA>>}}

\* fetch_metadata_from_url(url) on a web
ProbeFetch(web, url) ==
  /\ probe.fn = "none"
  /\ probe' = [fn |-> "fetch_metadata_from_url", web |-> web, x |-> url,
               out |-> fetch_metadata_from_url(web, url)]
  /\ UNCHANGED <<manifest, disk, store, fts, reader, files, ulid, crate_entries,
                 saved_entries, log, faults, last, lock>>

\* the graphs probed: up to MaxGraph entities, each the root, a person with a
\* relative @id, a person with an absolute @id or an entity without @id
ProbedGraphs ==
  Seqs({RootEntity(<<"up">>), SharedEntity,
        Entity(<<"#", "p">>, <<"Person">>, NoConforms, NoSubject, <<"jones">>),
        [Entity(<<>>, <<"Person">>, NoConforms, NoSubject, <<"anon">>)
           EXCEPT !.hasId = FALSE]},
       MaxGraph)

\* add_from_json(entities, "upload") on the empty index
ProbeIndexEntities(entities) ==
  /\ probe.fn = "none"
  /\ probe' = [fn |-> "index_entities", x |-> entities,
               out |-> add_from_json(State, entities, <<"upload">>, {})]
  /\ Untouched

\* a reader with the entity SharedId in each of n crates
ReaderWith(n) ==
  LET docs == {Document(<<UlidToken(k), SL, "c">>, SharedEntity) : k \in 1..n}
  IN  [d \in docs |-> 1]

\* find_crates_by_entity(SharedId) when n crates hold that entity
ProbeFindCratesByEntity(n) ==
  /\ probe.fn = "none"
  /\ probe' = [fn |-> "find_crates_by_entity", x |-> n,
               out |-> find_crates_by_entity(ReaderWith(n), SharedId)]
  /\ Untouched

\* the archives probed: up to MaxEntries entries, in the root, in a/ and in
\* b/a/, one of them no metadata file; and the entity ids asked for
ProbedArchives ==
  Seqs({<<META>>, <<"a", SL, "f">>, <<"a", SL, META>>, <<"b", SL, "a", SL, PMETA>>},
       MaxEntries)

ProbedEntityIds ==
  Seqs({<<".", SL, "a", SL>>, <<"a">>, <<".", SL, "b", SL, "a", SL>>,
        <<".", SL, "c", SL>>}, MaxAsked)

\* find_subcrate_metadata_in_zip(zip_path, entity_ids) on an archive with the
\* given entries
ProbeFindSubcrateMetadata(entries, entity_ids) ==
  /\ probe.fn = "none"
  /\ probe' = [fn |-> "find_subcrate_metadata_in_zip",
               x |-> [entries |-> entries, entity_ids |-> entity_ids],
               out |-> find_subcrate_metadata_in_zip(entries, entity_ids)]
  /\ Untouched

\* conforms_to_rocrate of an entity with the conformsTo value x
ProbeConformsTo(x) ==
  /\ probe.fn = "none"
  /\ probe' = [fn |-> "conforms_to_rocrate", x |-> x,
               out |-> conforms_to_rocrate(Entity(<<"a">>, <<"Dataset">>, x, NoSubject, <<>>))]
  /\ Untouched

NextPure ==
  \/ \E kind \in {"Url", "UrlSubcrate"}, url \in ProbedUrls, n \in 1..(MaxUlid + 1) :
       ProbeToCrateId(kind, url, n)
  \/ \E x \in ProbedIds, base \in CrateBases : ProbeResolveId(x, base)
  \/ \E x \in ProbedConformsTo : ProbeConformsTo(x)
  \/ \E x \in ProbedQueries : ProbePreprocessQuery(x)
  \/ \E entities \in ProbedGraphs : ProbeIndexEntities(entities)
  \/ \E n \in {0, 1, 2, SEARCH_BY_ID_LIMIT, SEARCH_BY_ID_LIMIT + 1} :
       ProbeFindCratesByEntity(n)
  \/ \E web \in ProbedWebs :
       \E url \in {IdA, IdA \o <<SL>>, IdA \o <<SL, META>>, IdA \o <<SL, PMETA>>} :
         ProbeFetch(web, url)
  \/ \E entries \in ProbedArchives, entity_ids \in ProbedEntityIds :
       ProbeFindSubcrateMetadata(entries, entity_ids)
  \/ \E url \in ProbedUrls : ProbeBaseUrl(url)

SpecPure == Init /\ [][NextPure]_vars


\* ------------------------------------------------------------ bin/server.rs: the lock
\* A third specification runs the request handlers of the server on the shared
\* index, SharedCrateIndex = Arc<RwLock<CrateIndex>>.  A handler takes the write
\* guard for a mutation and the read guard for a read, and drops it when its
\* closure ends.  A mutation is run in two steps, so that the state it is in
\* while it runs is a state of the model: up to a point of the call, and to its end.
\* No I/O error is injected here.

IndexVars == <<manifest, disk, store, fts, reader, files, ulid, crate_entries,
               saved_entries, log>>

Quiet(st) == [st EXCEPT !.log = <<>>]

\* the requests that mutate: POST /crates/url, POST /crates/upload with a JSON
\* document, DELETE /crates/{id}
Requests ==
  [op : {"add_url"}, arg : UserUrls]
    \cup (IF ulid < MaxUlid THEN [op : {"add_json"}, arg : DOMAIN Uploads] ELSE {})
    \cup [op : {"remove"}, arg : manifest \cup {IdD}]

\* the crate id a request is about
PrimaryId(req) ==
  CASE req.op = "add_url" -> to_crate_id([kind |-> "Url", url |-> req.arg], "")
    [] req.op = "add_json" -> <<UlidToken(ulid + 1), SL>> \o req.arg
    [] req.op = "remove" -> req.arg

\* what the closure of a mutating handler does to the index under its guard,
\* the call cut as plan says: add_crate_by_url, add_crate_by_upload, remove_crate
\* (which answers 404 and removes nothing for an id list_crates does not hold)
Handle(st, req, plan) ==
  CASE req.op = "add_url" ->
         add_from_source(st, [kind |-> "Url", url |-> req.arg], plan, 0).st
    [] req.op = "add_json" ->
         add_from_json(st, Uploads[req.arg], req.arg, plan).st
    [] req.op = "remove" ->
         IF req.arg \in list_crates(st) THEN remove(st, req.arg, plan).st ELSE st

\* the crates the existence check of remove_crate looks in: idx.list_crates()
\* under the write guard
CratesChecked(t) == list_crates(State)

\* the status remove_crate answers with (no I/O error is injected): 404 when
\* the check fails, else 204; the add handlers answer when add returns
StatusOf(t) ==
  IF lock[t].asked.op # "remove" THEN "done"
  ELSE IF lock[t].asked.arg \in CratesChecked(t) THEN "204" ELSE "404"

\* a write guard handed out whatever guards are held
CanWriteAlways(t) == TRUE

\* RwLock::write returns the guard when no guard is held
CanWrite(t) == \A u \in Threads : lock[u].guard = "none"

\* a read guard handed out whatever guards are held
CanReadDuringWrite(t) == TRUE

\* RwLock::read returns a guard when no write guard is held
CanRead(t) == \A u \in Threads : lock[u].guard # "write"

\* what the reading handlers return: list_crates, the crates search has hits
\* in, and during: a mutation is running
View(st) ==
  [crates |-> list_crates(st),
   searchable |-> {d.occurs_in : d \in DOMAIN st.reader},
   during |-> \E u \in Threads : lock[u].job.op # "none"]

\* the handler has a request it has not answered
Unanswered(t) == lock[t].asked.op # "none" /\ lock[t].reply = "none"

\* a mutating request arrives at a handler: the closure is spawned and will
\* ask for the write guard
Receive(t, req) ==
  /\ lock[t].guard = "none"
  /\ ~Unanswered(t)
  /\ lock' = [lock EXCEPT ![t] =
                [Idle EXCEPT !.asked =
                   [op |-> req.op, arg |-> req.arg,
                    rivals |-> IF req.op # "remove" THEN {}
                               ELSE {u \in Threads \ {t} :
                                       /\ Unanswered(u)
                                       /\ lock[u].asked.op = "remove"
                                       /\ lock[u].asked.arg = req.arg}]]]
  /\ UNCHANGED <<IndexVars, faults, last, probe>>

\* a mutating handler takes the write guard: index.write()
AcquireWrite(t) ==
  /\ lock[t].guard = "none"
  /\ Unanswered(t)
  /\ CanWrite(t)
  /\ lock' = [lock EXCEPT ![t].guard = "write",
                          ![t].job =
                            [op |-> lock[t].asked.op, arg |-> lock[t].asked.arg,
                             at |-> "start", status |-> StatusOf(t),
                             done |-> Quiet(Handle(State, lock[t].asked, {}))]]
  /\ UNCHANGED <<IndexVars, faults, last, probe>>

\* the mutation runs up to a point of the call on its crate: one of the steps
\* of Ingest and of remove
MutatePartly(t, point) ==
  /\ lock[t].guard = "write"
  /\ lock[t].job.at = "start"
  /\ LET cut == [id |-> PrimaryId(lock[t].job), point |-> point]
         Reached(st) == Fired(st) = {cut} /\ Becomes(Quiet(st))
     IN  Reached(Handle(State, lock[t].job, {cut}))
  /\ lock' = [lock EXCEPT ![t].job.at = point]
  /\ UNCHANGED <<faults, last, probe>>

\* the mutation runs to its end, the closure drops the write guard and the
\* handler answers; an add that ended is no longer between two removes
FinishMutation(t) ==
  /\ lock[t].guard = "write"
  /\ Becomes(lock[t].job.done)
  /\ lock' = [u \in Threads |->
                IF u = t
                THEN [Idle EXCEPT !.asked = lock[t].asked, !.reply = lock[t].job.status]
                ELSE IF lock[t].job.op # "remove"
                THEN [lock[u] EXCEPT !.asked.rivals = {}]
                ELSE lock[u]]
  /\ UNCHANGED <<faults, last, probe>>

\* a reading handler (list_crates, get_crate, get_crate_info, search) takes the
\* read guard, index.read(), and reads
AcquireRead(t) ==
  /\ lock[t].guard = "none"
  /\ ~Unanswered(t)
  /\ CanRead(t)
  /\ lock' = [lock EXCEPT ![t] = [Idle EXCEPT !.guard = "read", !.view = View(State)]]
  /\ UNCHANGED <<IndexVars, faults, last, probe>>

\* the closure of a reading handler ends and drops the read guard
ReleaseRead(t) ==
  /\ lock[t].guard = "read"
  /\ lock' = [lock EXCEPT ![t] = Idle]
  /\ UNCHANGED <<IndexVars, faults, last, probe>>

NextLock ==
  \/ \E t \in Threads, req \in Requests : Receive(t, req)
  \/ \E t \in Threads : AcquireWrite(t)
  \/ \E t \in Threads, point \in AddPoints \cup RemovePoints \cup {"list"} :
       MutatePartly(t, point)
  \/ \E t \in Threads : FinishMutation(t)
  \/ \E t \in Threads : AcquireRead(t)
  \/ \E t \in Threads : ReleaseRead(t)

SpecLock == Init /\ [][NextLock]_vars


\* ------------------------------------------------------------ the claims

\* the nodes of a returned AddResult tree
RECURSIVE TreeNodes(_)
TreeNodes(res) ==
  {res} \cup UNION {TreeNodes(res.subcrates[i]) : i \in DOMAIN res.subcrates}

TreeIds(res) == {node.crate_id : node \in TreeNodes(res)}

\* the last call ran into no I/O error
NoFault == \A i \in DOMAIN log : log[i].ev # "fault"

\* the graph behind a crate id of the world
GraphOf(id) ==
  CASE id = IdA -> GraphA
    [] id = IdB -> GraphB
    [] Len(id) > 2 /\ SubSeq(id, 3, Len(id)) = ZipName -> ZipGraphs[ZipRootEntry]
    [] Len(id) > 2 /\ SubSeq(id, 3, Len(id)) = ZipName \o <<SL, "root">> ->
         ZipGraphs[ZipSubEntry]
    [] Len(id) > 2 /\ SubSeq(id, 3, Len(id)) = DirPath -> DirGraphs[DirPath]
    [] Len(id) > 2 /\ SubSeq(id, 3, Len(id)) = <<"upload">> -> Uploads[<<"upload">>]
    [] OTHER -> <<>>

\* the queries asked of the index
QueryTypes == {"Dataset", "Person"}
QueryWords == {"alpha", "beta", "smith", "jones", "zeta", "runs", "delta", "up"}

\* no search, search_by_type, search_by_id or search_typed_content on rd returns a
\* hit whose crate_id is id
NoHitFor(rd, id) ==
  /\ \A w \in QueryWords : \A h \in search(rd, w) : h.crate_id # id
  /\ \A t \in QueryTypes : \A h \in search_by_type(rd, t) : h.crate_id # id
  /\ \A d \in DOMAIN rd : \A h \in search_by_id(rd, d.id) : h.crate_id # id
  /\ \A t \in QueryTypes, w \in QueryWords :
       \A h \in search_typed_content(rd, t, w) : h.crate_id # id

\* C1: after add_from_source returns Ok for a source whose crate id was not in the
\* manifest, the returned crate_id and every crate_id of the returned subcrates
\* tree is in the manifest and in the Store, and the FTS holds, with occurs_in
\* equal to that id, the documents counted for it.
AddedCratesAreEverywhere ==
  (last.op \in {"add_url", "add_zip", "add_dir"} /\ last.ok /\ last.fresh /\ ~last.cut)
  => \A node \in TreeNodes(last.res) :
       /\ node.crate_id \in manifest
       /\ node.crate_id \in store
       /\ BagCardinality(DocsOf(fts, node.crate_id)) >= node.entity_count
       /\ node.entity_count =
            BagCardinality(index_entities(node.crate_id, GraphOf(node.crate_id)))

\* an add of the archive returned Ok with its subcrate in the tree
AddedZipWithSubcrate ==
  /\ last.op = "add_zip" /\ last.ok /\ last.fresh
  /\ Len(last.res.subcrates) = 1
  /\ last.res.entity_count = 2
  /\ last.res.subcrates[1].entity_count = 2

Absent(id) == DocsOf(fts, id) = EmptyBag /\ DocsOf(reader, id) = EmptyBag

\* what remove(id) leaves of id
Gone(id) ==
  /\ Absent(id)
  /\ id \notin files
  /\ id \notin manifest /\ id \notin disk
  /\ id \notin store
  /\ NoHitFor(reader, id)

\* the crate of the last call is gone
LastIsGone == Gone(last.id)

\* the ids with a document, committed or visible
Indexed == {d.occurs_in : d \in DOMAIN fts} \cup {d.occurs_in : d \in DOMAIN reader}

\* C4: after remove(id) returns Ok no FTS document with occurs_in = id remains,
\* the metadata file of id is gone, id is in neither the manifest nor the Store,
\* and no search returns a hit whose crate_id is id; documents of an id that has
\* none appear only by a call that adds and commits that id.
RemovedCrateIsGone ==
  [][ /\ (last'.op = "remove" /\ last'.ok) => LastIsGone'
      /\ \A id \in Indexed' :
           Absent(id) =>
             /\ last'.op \in {"add_url", "add_zip", "add_dir", "add_json"}
             /\ \E i \in DOMAIN log' : log'[i] = [ev |-> "commit", arg |-> id]
    ]_vars

\* remove of the indexed crate A returned Ok while B is indexed
RemovedAKeptB ==
  /\ last.op = "remove" /\ last.ok /\ ~last.fresh /\ last.id = IdA
  /\ IdB \in manifest

\* C5: remove(A) changes nothing of another crate B: the FTS documents with
\* occurs_in = B, the manifest entry, the Store entry and the metadata file of B
\* are as before; after an Ok, search_by_id returns no hit for A and a hit for
\* every document of another crate.
RemoveLeavesOtherCrates ==
  [][ last'.op = "remove" =>
        /\ \A B \in (Removable \cup Removable') \ {last'.id} :
             /\ DocsOf(fts', B) = DocsOf(fts, B)
             /\ (B \in manifest') = (B \in manifest)
             /\ (B \in store') = (B \in store)
             /\ (B \in files') = (B \in files)
        /\ last'.ok =>
             /\ \A d \in DOMAIN reader' :
                  \A h \in search_by_id(reader', d.id) : h.crate_id # last'.id
             /\ \A d \in DOMAIN fts :
                  d.occurs_in # last'.id =>
                    [entity_id |-> d.id, crate_id |-> d.occurs_in]
                      \in search_by_id(reader', d.id)
    ]_vars

\* A was removed and the id A and B share is found in B alone
SharedIdFoundInBOnly ==
  /\ last.op = "remove" /\ last.ok /\ ~last.fresh /\ last.id = IdA
  /\ find_crates_by_entity(reader, SharedId) = {IdB}

\* C6: add_from_source of a URL source whose crate id is in the manifest returns
\* Ok with entity_count = 0 and subcrates = [], loads nothing, and leaves
\* crate_count, the manifest, the Store, the FTS documents and the metadata files
\* unchanged.
ReAddOfIndexedUrlIsNoOp ==
  [][ (last'.op = "add_url" /\ ~last'.fresh) =>
        /\ last'.ok
        /\ last'.res = AddResult(last'.id, 0, <<>>)
        /\ log' = <<>>
        /\ Cardinality(manifest') = last'.count0
        /\ UNCHANGED <<manifest, disk, store, fts, reader, files, ulid>>
    ]_vars

\* a URL was added whose crate is indexed
ReAddedIndexedUrl ==
  /\ last.op = "add_url" /\ ~last.fresh /\ last.ok
  /\ last.id \in manifest /\ DocsOf(fts, last.id) # EmptyBag

\* the variants of a probed URL and its crate id
ProbedCrateId(url) == to_crate_id(UrlSource(probe.kind, url), "")

\* C7 as stated: to_crate_id of a URL source does not depend on the call, and URLs
\* that differ only by trailing '/' characters or by a trailing
\* ro-crate-metadata.json segment have the same crate id.
CrateIdIgnoresTrailingSegment ==
  probe.fn = "to_crate_id" =>
    /\ \A n \in 1..(MaxUlid + 1) :
         to_crate_id(UrlSource(probe.kind, probe.x), UlidToken(n)) = probe.out
    /\ ProbedCrateId(probe.x \o <<SL>>) = probe.out
    /\ ProbedCrateId(probe.x \o <<SL, META>>) = probe.out
    /\ EndsWith(probe.x, <<SL>>) => ProbedCrateId(probe.x \o <<META>>) = probe.out

\* C7 as amended: to_crate_id of a URL source does not depend on the call; URLs
\* that differ only by trailing '/' characters have the same crate id; and for a
\* URL t that ends neither in '/' nor in the characters ro-crate-metadata.json,
\* the URLs t, t/, t/ro-crate-metadata.json and t/ro-crate-metadata.json/ all
\* have the crate id t.
CrateIdOfUrlVariants ==
  probe.fn = "to_crate_id" =>
    /\ \A n \in 1..(MaxUlid + 1) :
         to_crate_id(UrlSource(probe.kind, probe.x), UlidToken(n)) = probe.out
    /\ ProbedCrateId(probe.x \o <<SL>>) = probe.out
    /\ ProbedCrateId(probe.x \o <<SL, SL>>) = probe.out
    /\ (~EndsWith(probe.x, <<SL>>) /\ ~EndsWithMeta(probe.x)) =>
         /\ probe.out = probe.x
         /\ ProbedCrateId(probe.x \o <<SL, META>>) = probe.x
         /\ ProbedCrateId(probe.x \o <<SL, META, SL>>) = probe.x

\* to_crate_id was applied to a subcrate URL that ends in a plain segment
ProbedPlainUrl ==
  /\ probe.fn = "to_crate_id" /\ probe.kind = "UrlSubcrate"
  /\ probe.x = IdA \o <<SL, "a">>
  /\ probe.out = probe.x

ZipSubcrateIdIsParentSlashDirectory ==
  (last.op = "add_zip" /\ last.ok /\ NoFault) =>
    /\ Cardinality(manifest) = last.count0 + 2
    /\ Len(last.res.subcrates) = 1
    /\ last.res.subcrates[1].crate_id = last.id \o <<SL, "experiments">>

\* C10 as stated: resolve_id is idempotent for every entity id and every crate
\* base, URL crate ids and local ids alike.
ResolveIdIdempotent ==
  probe.fn = "resolve_id" => resolve_id(probe.out, probe.base) = probe.out

\* C10 as amended: resolve_id(resolve_id(x, base), base) = resolve_id(x, base)
\* when x is absolute or the base, with its trailing '/' trimmed, begins with
\* http:// or https://.
ResolveIdIdempotentOnUrlBases ==
  ( /\ probe.fn = "resolve_id"
    /\ IsAbsolute(probe.x) \/ IsAbsolute(TrimEndMatches(probe.base, <<SL>>)) )
  => resolve_id(probe.out, probe.base) = probe.out

\* resolve_id was applied to a relative id and a URL base
ResolvedRelativeOnUrlBase ==
  /\ probe.fn = "resolve_id"
  /\ probe.base = IdA \o <<SL>>
  /\ probe.x = <<".", SL, "a">>
  /\ probe.out = IdA \o <<SL, "a">>


\* the longest prefix of b that does not end in '/'
WithoutTrailingSlashes(b) ==
  LET ends == {i \in 0..Len(b) : i = 0 \/ b[i] # SL}
  IN  SubSeq(b, 1, CHOOSE i \in ends : \A j \in ends : j <= i)

\* C11: resolve_id(entity_id, base) is entity_id itself when entity_id starts with
\* http:// or https://; otherwise it is the base without its trailing '/' for
\* "./", that base followed by "/x" for "./x", the base as given followed by
\* "#frag" for "#frag", and the base without its trailing '/' followed by "/x"
\* for any other id x.
ResolveIdByCases ==
  probe.fn = "resolve_id" =>
    LET x == probe.x
        b == probe.base
        t == WithoutTrailingSlashes(b)
        absolute == \/ Len(x) >= 3 /\ x[1] \in {"http:", "https:"} /\ x[2] = SL /\ x[3] = SL
        dotslash == Len(x) >= 2 /\ x[1] = "." /\ x[2] = SL
        fragment == Len(x) >= 1 /\ x[1] = "#"
    IN  probe.out =
          IF absolute THEN x
          ELSE IF dotslash /\ Len(x) = 2 THEN t
          ELSE IF dotslash THEN t \o <<SL>> \o SubSeq(x, 3, Len(x))
          ELSE IF fragment THEN b \o x
          ELSE t \o <<SL>> \o x

\* resolve_id joined a fragment to a base that ends in '/'
ResolvedFragmentOnSlashBase ==
  /\ probe.fn = "resolve_id"
  /\ probe.base = IdA \o <<SL>>
  /\ probe.x = <<"#", "a">>
  /\ probe.out = IdA \o <<SL, "#", "a">>


AddOps == {"add_url", "add_zip", "add_dir", "add_json"}

\* the entry ends in its own id, is root exactly when its path has one element,
\* and otherwise has the second-to-last element for its parent
EndsInOwnId(entry) ==
  /\ Len(entry.full_path) >= 1
  /\ entry.full_path[Len(entry.full_path)] = entry.crate_id
  /\ is_root(entry) <=> Len(entry.full_path) = 1
  /\ ~is_root(entry) =>
       parent_id_of(entry) = entry.full_path[Len(entry.full_path) - 1]

PathInManifest(entry, ids) ==
  \A i \in DOMAIN entry.full_path : entry.full_path[i] \in ids

LoadedIds == {log[i].arg : i \in {j \in DOMAIN log : log[j].ev = "load"}}
SavedIds == {log[i].arg : i \in {j \in DOMAIN log : log[j].ev = "save"}}
FaultedIds == {log[i].arg.id : i \in {j \in DOMAIN log : log[j].ev = "fault"}}

\* the subcrates the last call tried to add and that failed: at the load, or at
\* a later step of the pipeline
FailedSubcrates == ((LoadedIds \ SavedIds) \cup FaultedIds) \ {last.id}

\* the crate ids the @graph of a crate of the world leads to: A references B and
\* the unreachable D, B references A and itself, the archive and the directory
\* each hold one nested crate
DiscoveredBy(id) ==
  CASE id = IdA -> {IdB, IdD}
    [] id = IdB -> {IdA, IdB}
    [] Len(id) = 3 /\ SubSeq(id, 3, 3) = ZipName -> {id \o <<SL, "root">>}
    [] Len(id) = 3 /\ SubSeq(id, 3, 3) = DirPath -> {id \o <<SL, "sub">>}
    [] OTHER -> {}

\* C13: when add_from_source of a URL, an archive or a directory whose id was not
\* indexed tries a discovered subcrate and that subcrate fails to load or to be
\* indexed, the call still returns Ok, the parent is in the manifest, the Store
\* and the FTS, every subcrate the parent's graph leads to has been tried (or is
\* indexed), and no failed subcrate is in the returned tree.
SubcrateFailureIsNotFatal ==
  ( /\ last.op \in {"add_url", "add_zip", "add_dir"}
    /\ last.fresh
    /\ ~last.cut
    /\ last.id \notin FaultedIds
    /\ FailedSubcrates # {} )
  => /\ last.ok
     /\ last.id \in manifest
     /\ last.id \in store
     /\ \A i \in DOMAIN GraphOf(last.id) :
           /\ BagIn(Document(last.id, GraphOf(last.id)[i]), fts)
           /\ BagIn(Document(last.id, GraphOf(last.id)[i]), reader)
     /\ TreeIds(last.res) \cap FailedSubcrates = {}
     /\ \A c \in DiscoveredBy(last.id) : c \in manifest \/ c \in LoadedIds

\* A was added, its subcrate B failed at the index step, and D was still tried
SubcrateBFailedDTried ==
  /\ last.op = "add_url"
  /\ last.id = IdA
  /\ last.ok
  /\ \E i \in DOMAIN log :
       log[i] = [ev |-> "fault", arg |-> [id |-> IdB, point |-> "index"]]
  /\ IdB \notin manifest
  /\ IdD \in LoadedIds
  /\ last.res.subcrates = <<>>


\* C14: remove(id) of an id that is not in the manifest returns an error
\* (CrateNotFound), and get_crate_json(id) of such an id returns None.
RemoveOfUnknownIdIsAnError ==
  /\ (last.op = "remove" /\ last.fresh) => ~last.ok
  /\ \A id \in Removable : id \notin manifest => get_crate_json(State, id) = "None"


\* the manifest, the Store, the FTS documents and the metadata files stay as they are
IndexUnchanged ==
  /\ manifest' = manifest
  /\ store' = store
  /\ fts' = fts
  /\ files' = files

ReAddedAfterRemove == last.op \in AddOps /\ last.ok /\ last.after.op = last.op /\ last.after.ok

\* C16 as stated: add_from_source, remove of the returned crate id, and
\* add_from_source of the same source again: the second add returns the
\* entity_count the first add returned.
ReAddReturnsSameEntityCount ==
  ReAddedAfterRemove => last.res.entity_count = last.after.count

\* C16 as amended: when the crate id of the source was not indexed at the first
\* add, add_from_source, remove of the returned crate id and add_from_source of
\* the same source again return the same entity_count.
ReAddOfNewSourceReturnsSameEntityCount ==
  (ReAddedAfterRemove /\ last.after.fresh)
    => last.res.entity_count = last.after.count

\* the URL was added while its crate id was not indexed, the crate removed, and
\* the URL added again
ReAddedUrl ==
  /\ last.op = "add_url"
  /\ last.ok
  /\ last.after.op = "add_url"
  /\ last.after.ok
  /\ last.after.fresh
  /\ last.res.entity_count > 0
  /\ last.res.entity_count = Len(GraphOf(last.id))


\* C17: after an add returns Ok(r), crate_count has grown by exactly the
\* total_crates_added that convert_add_result computes from r, 1 plus the number
\* of nodes of the flattened subcrates tree.
CrateCountGrowsByTotalCratesAdded ==
  (last.op \in AddOps /\ last.ok /\ ~last.cut)
    => crate_count(State) = last.count0 + convert_add_result(last.res).total_crates_added


\* C18: an add committed the documents of a URL crate and failed before its
\* manifest entry was saved; after a restart (the manifest lacks the id, the FTS
\* holds one document per entity of it) a new add of that URL returns Ok and
\* leaves exactly one document per entity of the crate in the FTS.
ReAddAfterRestartLeavesNoDuplicates ==
  [][(/\ last.op = "restart"
      /\ last'.op = "add_url" /\ last'.ok
      /\ last'.id \notin manifest
      /\ BagSize(DocsOf(fts, last'.id)) = Len(GraphOf(last'.id))
      /\ Len(GraphOf(last'.id)) > 0)
       => BagSize(DocsOf(fts', last'.id)) = Len(GraphOf(last'.id))]_vars

\* the conformsTo values the check looks at: the @id of an object, the @ids of
\* the objects in an array, a bare string
ConformsToValues(x) ==
  CASE x.shape = "object" -> {x.ids[i] : i \in DOMAIN x.ids}
    [] x.shape = "string" -> {x.ids[1]}
    [] x.shape = "array" ->
         UNION {{x.ids[i].ids[j] : j \in DOMAIN x.ids[i].ids} :
                  i \in {k \in DOMAIN x.ids : x.ids[k].shape = "object"}}
    [] OTHER -> {}

\* C19: conforms_to_rocrate(entity) is true exactly when some conformsTo value
\* (an object's @id, an @id of an object in an array, or a bare string) starts
\* with https://w3id.org/ro/crate/ including the trailing slash; the value
\* https://w3id.org/ro/crate without the slash does not match.
ConformsToNeedsTrailingSlash ==
  probe.fn = "conforms_to_rocrate" =>
    (probe.out <=> \E v \in ConformsToValues(probe.x) :
                     StartsWith(v, ROCRATE_PROFILE_PREFIX \o <<SL>>))

\* the handlers that hold a guard of a kind
Holders(kind) == {t \in Threads : lock[t].guard = kind}

RehydrationSkipsMissingFiles ==
  last.op = "restart" =>
    /\ last.ok
    /\ manifest = disk
    /\ store = {id \in manifest : id \in files}

\* the index was reopened with a manifest that names a crate whose metadata file
\* is missing and a crate whose file is there
RestartedWithMissingFile ==
  /\ last.op = "restart"
  /\ \E id \in manifest : id \notin files /\ id \notin store
  /\ \E id \in manifest : id \in files /\ id \in store

\* C22: when a directory or a zip file is added and the call before was an add
\* of the same source, both returning Ok, the second add does not hit the cycle
\* short-circuit (its id was not indexed and it indexes the entities again), the
\* two crate ids differ, both are in the manifest, and crate_count is at least 2
\* more than before the first add.
LocalSourceAddedTwice ==
  [][(/\ last.op \in {"add_zip", "add_dir"} /\ last.ok
      /\ ulid' = ulid + 1
      /\ last'.op = last.op /\ last'.arg = last.arg /\ last'.ok)
       => /\ last'.fresh
          /\ last'.res.entity_count = last.res.entity_count
          /\ last'.res.entity_count > 0
          /\ last'.id # last.id
          /\ {last.id, last'.id} \subseteq manifest'
          /\ Cardinality(manifest') >= last.count0 + 2]_vars

\* the archive was added twice in a row: two crates of it are indexed under
\* different ULIDs
AddedArchiveTwice ==
  /\ last.op = "add_zip" /\ last.ok
  /\ ulid = 2
  /\ {<<UlidToken(1), SL>> \o ZipName, <<UlidToken(2), SL>> \o ZipName} \subseteq manifest
  /\ last.id = <<UlidToken(2), SL>> \o ZipName
  /\ DocsOf(fts, <<UlidToken(1), SL>> \o ZipName) # EmptyBag
  /\ DocsOf(fts, last.id) # EmptyBag

\* the positions of q inside double quotes, the quotes included; a backslash
\* inside quotes takes the next character with it
RECURSIVE QuotedFrom(_, _, _)
QuotedFrom(q, i, inside) ==
  IF i > Len(q) THEN {}
  ELSE IF q[i] = QUOTE THEN {i} \cup QuotedFrom(q, i + 1, ~inside)
  ELSE IF ~inside THEN QuotedFrom(q, i + 1, FALSE)
  ELSE IF q[i] = BSL THEN ({i, i + 1} \cap (1..Len(q))) \cup QuotedFrom(q, i + 2, TRUE)
  ELSE {i} \cup QuotedFrom(q, i + 1, TRUE)

\* the 'path:' terms of q: a ':' outside quotes that ends a run of field
\* characters, the path starting at the first character of the run that can
\* start a field name
FieldTerms(q) ==
  {t \in [from : 1..Len(q), colon : 1..Len(q)] :
     /\ q[t.colon] = ":" /\ t.colon \notin QuotedFrom(q, 1, FALSE)
     /\ t.from < t.colon
     /\ \A k \in t.from..(t.colon - 1) : IsFieldChar(q[k])
     /\ IsFieldStart(q[t.from])
     /\ \A j \in 1..(t.from - 1) :
          ~(IsFieldStart(q[j]) /\ \A k \in j..(t.colon - 1) : IsFieldChar(q[k]))}

\* where the paths begin whose field root is not a known field
UnknownPaths(q) ==
  {t.from : t \in {u \in FieldTerms(q) :
                     field_root(SubSeq(q, u.from, u.colon - 1)) \notin KNOWN_FIELDS}}

\* q with properties. put before each of the positions
RECURSIVE Prefixed(_, _, _)
Prefixed(q, i, positions) ==
  IF i > Len(q) THEN <<>>
  ELSE (IF i \in positions THEN <<"properties", ".">> ELSE <<>>)
         \o <<q[i]>> \o Prefixed(q, i + 1, positions)

\* C23: preprocess_query returns a query with no 'field:' term unchanged, leaves
\* a term whose field root is a known field unchanged, prepends properties. to
\* every other 'path:' term, copies the text inside double quotes, and applied
\* to its own result it changes nothing.
PreprocessRewritesFieldPrefixes ==
  probe.fn = "preprocess_query" =>
    /\ FieldTerms(probe.x) = {} => probe.out = probe.x
    /\ probe.out = Prefixed(probe.x, 1, UnknownPaths(probe.x))
    /\ preprocess_query(probe.out) = probe.out

\* a query with an unknown dotted path was rewritten
PreprocessedUnknownPath ==
  /\ probe.fn = "preprocess_query"
  /\ probe.x = <<"d", ".", "i", ":">>
  /\ probe.out = <<"properties", ".", "d", ".", "i", ":">>

\* C24 as stated: search hands every query string to the parser as it was
\* given, the pre-processing being the identity.
PreprocessIsIdentity ==
  probe.fn = "preprocess_query" => probe.out = probe.x

\* C24: the pre-processing of search returns the query string unchanged exactly
\* when no 'path:' term outside double quotes has a field root that is not a
\* known field.
PreprocessIsIdentityWithoutUnknownPaths ==
  probe.fn = "preprocess_query" =>
    (probe.out = probe.x <=> UnknownPaths(probe.x) = {})

\* a query on the known field id came back as it was
PreprocessedKnownField ==
  /\ probe.fn = "preprocess_query"
  /\ probe.x = <<"i", "d", ":", "1">>
  /\ probe.out = probe.x

\* C25: the subcrate discovery of an add of a zip archive or of a directory
\* comes to an end: the add returns without the recursion going beyond
\* MaxDepth levels, more than the archive has metadata files.
LocalDiscoveryTerminates ==
  last.op \in {"add_zip", "add_dir"} => ~last.cut

\* the steps of the add of one crate, in the order of the claim
AddSteps == <<"write", "commit", "manifest", "save">>

\* the step of the same crate that the log holds last before position i
StepBefore(i) ==
  LET earlier == {j \in 1..(i - 1) : /\ \E n \in DOMAIN AddSteps : log[j].ev = AddSteps[n]
                                      /\ log[j].arg = log[i].arg}
  IN  IF earlier = {} THEN "none"
      ELSE log[CHOOSE j \in earlier : \A k \in earlier : k <= j].ev

\* C26: within one add every crate goes through the steps in the order write
\* the metadata file, index and commit, insert into the Store and the manifest,
\* save the manifest; the subcrates are discovered after that: when the load
\* of a subcrate begins, the save of its parent is done and the parent's id is
\* in the in-memory manifest and in the saved manifest.
StepsOfAnAddAreOrdered ==
  \A i \in DOMAIN log :
    /\ \A n \in 2..Len(AddSteps) :
         log[i].ev = AddSteps[n] => StepBefore(i) = AddSteps[n - 1]
    /\ log[i].ev = "write" => StepBefore(i) \in {"none", "write", "commit", "manifest"}
    /\ log[i].ev = "descend" =>
         /\ log[i].arg.listed /\ log[i].arg.saved
         /\ \E j \in 1..(i - 1) : log[j] = [ev |-> "save", arg |-> log[i].arg.id]

\* A was added and its subcrates B and D were tried: the log holds the four
\* steps of A and of B, and both loads began after the save of A
AddedWithTwoSubcrates ==
  /\ last.op = "add_url" /\ last.id = IdA /\ last.ok
  /\ Len(last.res.subcrates) = 1
  /\ \A n \in DOMAIN AddSteps :
       \A id \in {IdA, IdB} : \E i \in DOMAIN log : log[i] = [ev |-> AddSteps[n], arg |-> id]
  /\ Cardinality({i \in DOMAIN log : log[i].ev = "descend" /\ log[i].arg.id = IdA}) = 2

\* C27: a URL that ends in ro-crate-metadata.json is fetched once and the load
\* goes on iff that fetch succeeds; for any other URL the metadata file under
\* it is fetched first and used if it answers with a body that begins with
\* '{', else the bare URL is fetched and used iff its body begins with '{';
\* nothing else is fetched, and otherwise the load fails.
UrlLoadProtocol ==
  probe.fn = "fetch_metadata_from_url" =>
    LET url == probe.x
        web == probe.web
        out == probe.out
        under == TrimEndMatches(url, <<SL>>) \o <<SL, META>>
        Brace(u) == u \in DOMAIN web /\ web[u] # Html
    IN  IF url[Len(url)] \in {META, PMETA}
        THEN /\ out.fetched = <<url>>
             /\ out.ok <=> url \in DOMAIN web
             /\ out.ok => out.url = url
        ELSE /\ Brace(under) => out.ok /\ out.url = under /\ out.fetched = <<under>>
             /\ ~Brace(under) =>
                  /\ out.fetched = <<under, url>>
                  /\ out.ok <=> Brace(url)
                  /\ out.ok => out.url = url

\* the metadata file under the URL answered with a page, and the bare URL
\* with JSON
FetchedBareUrlAfterMetadata ==
  /\ probe.fn = "fetch_metadata_from_url"
  /\ probe.x = IdA
  /\ probe.web = ((IdA \o <<SL, META>>) :> Html @@ IdA :> Json(<<>>))
  /\ probe.out.fetched = <<IdA \o <<SL, META>>, IdA>>
  /\ probe.out.ok

\* the requests the loader made for subcrates: those after the first load began
SubcrateFetches ==
  {log[i].arg : i \in {j \in DOMAIN log :
                        /\ log[j].ev = "fetch"
                        /\ \E k \in 1..(j - 1) : log[k].ev = "descend"}}

\* the metadata references of the subcrate entities of a graph as they stand in
\* it: the subjectOf, else the @id followed by the metadata file name
MetadataReferences(graph) ==
  {IF extract_subject_of_url(graph[i]) # <<>> THEN extract_subject_of_url(graph[i])
   ELSE TrimEndMatches(graph[i].id, <<SL>>) \o <<SL, META>> :
     i \in {j \in DOMAIN graph : IsSubcrateEntity(graph[j])}}

\* C28: every URL the loader is asked to fetch for a discovered subcrate starts
\* with http:// or https://; the subcrates an add of an archive or of an
\* uploaded document hands to the URL loader are those whose metadata reference
\* stands in the graph in that form.
DiscoveryFetchesAbsoluteUrlsOnly ==
  /\ \A url \in SubcrateFetches : StartsWith(url, HTTP) \/ StartsWith(url, HTTPS)
  /\ last.op \in {"add_zip", "add_json"} =>
       \A i \in 1..(Len(log) - 1) :
         ( /\ log[i].ev = "descend" /\ log[i].arg.id = last.id
           /\ log[i + 1].ev = "fetch" )
         => /\ log[i + 1].arg \in MetadataReferences(GraphOf(last.id))
            /\ StartsWith(log[i + 1].arg, HTTP) \/ StartsWith(log[i + 1].arg, HTTPS)

\* the uploaded document was added and its subcrate B fetched from the URL the
\* document names
UploadFollowedAbsoluteSubcrate ==
  /\ last.op = "add_json" /\ last.ok
  /\ \E i \in 1..(Len(log) - 1) :
       /\ log[i].ev = "descend" /\ log[i].arg.id = last.id
       /\ log[i + 1] = [ev |-> "fetch", arg |-> IdB \o <<SL, META>>]

\* C29: index_entities emits one document for each entity that has a string
\* @id, with id = resolve_id(@id, crate_id) and occurs_in = crate_id, emits
\* none for an entity without @id, and the entity_count of the AddResult is the
\* number of documents emitted.
OneDocumentPerEntityWithId ==
  probe.fn = "index_entities" =>
    LET entities == probe.x
        crate_id == probe.out.res.crate_id
        docs == probe.out.st.fts
        Named == {i \in DOMAIN entities : entities[i].hasId}
        DocOf(i) == [id |-> resolve_id(entities[i].id, crate_id), occurs_in |-> crate_id,
                     entity_type |-> entities[i].types, content |-> entities[i].words]
    IN  /\ probe.out.ok
        /\ \A d \in BagToSet(docs) : \E i \in Named : d = DocOf(i)
        /\ \A i \in Named : CopiesIn(DocOf(i), docs)
                                = Cardinality({j \in Named : DocOf(j) = DocOf(i)})
        /\ probe.out.res.entity_count = Cardinality(Named)
        /\ probe.out.res.entity_count = BagCardinality(docs)

\* a graph of the same person twice and an entity without @id was indexed: two
\* documents
IndexedTwoOfThreeEntities ==
  /\ probe.fn = "index_entities"
  /\ Len(probe.x) = 3
  /\ probe.x[1] = SharedEntity /\ probe.x[2] = SharedEntity /\ ~probe.x[3].hasId
  /\ probe.out.res.entity_count = 2
  /\ CopiesIn(Document(probe.out.res.crate_id, SharedEntity), probe.out.st.fts) = 2

\* C30: find_crates_by_entity(id) returns the crate ids c for which the index
\* holds a document with that id and occurs_in = c, all of them and no other,
\* however many crates hold the entity.
FindCratesByEntityIsComplete ==
  probe.fn = "find_crates_by_entity" =>
    probe.out = {d.occurs_in : d \in {e \in DOMAIN ReaderWith(probe.x) : e.id = SharedId}}

\* two handlers whose remove requests of the same crate id were unanswered at
\* the same time, and both have answered
AnsweredRivals(t, u) ==
  /\ t # u
  /\ lock[t].asked.op = "remove" /\ lock[u].asked.op = "remove"
  /\ lock[t].asked.arg = lock[u].asked.arg
  /\ t \in lock[u].asked.rivals
  /\ lock[t].reply # "none" /\ lock[u].reply # "none"

DirectoryOf(id) == SubSeq(id, 3, Len(id))

\* the ids of the subcrate entities of the crate in the directory dir
SubcrateIdsIn(dir) ==
  LET ids == find_potential_subcrates(DirGraphs[dir])
  IN  {ids[i] : i \in DOMAIN ids}

\* C32: every subcrate in the tree add_from_source(Directory(..)) returns was
\* named by a conforming Dataset id of its parent's graph, has the id
\* <parent_id>/<normalized-id>, and <dir>/<normalized-id> holds a metadata file,
\* at every level of the tree
SubdirectoriesAreFollowedInPlace ==
  (last.op = "add_dir" /\ last.ok) =>
    \A node \in TreeNodes(last.res) : \A i \in DOMAIN node.subcrates :
      \E e \in SubcrateIdsIn(DirectoryOf(node.crate_id)) :
        /\ node.subcrates[i].crate_id
             = node.crate_id \o <<SL>> \o NormalizedEntityId(e)
        /\ find_metadata_in_dir(DirectoryOf(node.crate_id) \o <<SL>>
                                 \o NormalizedEntityId(e))

\* the same for the entity ids that are not absolute paths, and every such id
\* whose directory holds a metadata file is in the tree when no step failed
RelativeSubdirectoriesAreFollowed ==
  (last.op = "add_dir" /\ last.ok) =>
    \A node \in TreeNodes(last.res) :
      find_metadata_in_dir(DirectoryOf(node.crate_id)) =>
        LET dir == DirectoryOf(node.crate_id)
            Below(e) == dir \o <<SL>> \o NormalizedEntityId(e)
            Children == {node.subcrates[i].crate_id : i \in DOMAIN node.subcrates}
            IdFor(e) == node.crate_id \o <<SL>> \o NormalizedEntityId(e)
        IN  /\ \A e \in SubcrateIdsIn(dir) :
                 (Head(e) # SL /\ IdFor(e) \in Children) => find_metadata_in_dir(Below(e))
            /\ \A c \in Children : \E e \in SubcrateIdsIn(dir) : c = IdFor(e)
            /\ (NoFault /\ last.fresh) =>
                 \A e \in SubcrateIdsIn(dir) :
                   (Head(e) # SL /\ find_metadata_in_dir(Below(e)))
                     => IdFor(e) \in Children

\* a directory was added whose subdirectory and whose subdirectory's
\* subdirectory were indexed as crates
NestedDirectoriesIndexed ==
  /\ last.op = "add_dir" /\ last.ok /\ NoFault
  /\ \E node \in TreeNodes(last.res) :
       /\ node.crate_id = last.id \o <<SL, "in", SL, "deep">>
       /\ node.crate_id \in manifest

\* the entries of an archive that end in ro-crate-metadata.json and whose
\* directory is the normalized id or ends with '/' and the normalized id
EntriesFor(entries, entity_id) ==
  {i \in DOMAIN entries :
     /\ entries[i][Len(entries[i])] \in {META, PMETA}
     /\ LET dir == EntryDir(entries[i])
            id == NormalizedEntityId(entity_id)
        IN  \/ dir = id
            \/ /\ Len(dir) > Len(id)
               /\ SubSeq(dir, Len(dir) - Len(id), Len(dir)) = <<SL>> \o id}

\* C33: find_subcrate_metadata_in_zip returns one pair for each requested id
\* that has an entry ending in ro-crate-metadata.json in a directory that is, or
\* ends with '/' and, the normalized id, in the order of the requested ids; the
\* entry of the pair is the first such entry of the archive, and an id with no
\* such entry has no pair
SubcrateMetadataIsFirstMatchPerId ==
  probe.fn = "find_subcrate_metadata_in_zip" =>
    LET entries == probe.x.entries
        Found(id) == EntriesFor(entries, id) # {}
        asked == SelectSeq(probe.x.entity_ids, Found)
    IN  /\ Len(probe.out) = Len(asked)
        /\ \A k \in DOMAIN probe.out :
             /\ probe.out[k].entity_id = asked[k]
             /\ \E i \in EntriesFor(entries, asked[k]) :
                  /\ probe.out[k].entry = entries[i]
                  /\ \A j \in EntriesFor(entries, asked[k]) : i <= j

\* an archive whose first entry in a/ is no metadata file and whose second lies
\* in b/a/ was asked for ./c/ and ./a/: ./c/ is omitted, ./a/ gets b/a/'s entry
SubcrateMetadataFoundBySuffix ==
  /\ probe.fn = "find_subcrate_metadata_in_zip"
  /\ probe.x.entries = << <<"a", SL, "f">>, <<"b", SL, "a", SL, PMETA>>, <<"a", SL, META>> >>
  /\ probe.x.entity_ids = << <<".", SL, "c", SL>>, <<".", SL, "a", SL>> >>
  /\ probe.out = << [entity_id |-> <<".", SL, "a", SL>>,
                     entry |-> <<"b", SL, "a", SL, PMETA>>] >>

\* C34: the crate ids of the Store are crate ids of the in-memory manifest, and
\* no call took the branch of index_crate that removes the prior postings of a
\* crate the Store holds
StoreIsWithinManifest ==
  /\ store \subseteq manifest
  /\ \A i \in DOMAIN log : log[i].ev # "replace"

\* an add of an id that a failed remove left in the manifest and not in the
\* Store returned at once: the crate was not indexed again
AddSkippedHalfRemovedCrate ==
  /\ last.op \in AddOps /\ last.ok /\ ~last.fresh
  /\ last.id \in manifest \ store
  /\ last.res.entity_count = 0
  /\ \A i \in DOMAIN log : log[i].ev # "commit"

\* the entities of the root graph of w.zip that find_subcrate_metadata_in_zip
\* matches with an entry of the archive
TwinMatches ==
  find_subcrate_metadata_in_zip(ArchiveEntries(TwinName),
                                find_potential_subcrates(TwinGraphs[TwinRootEntry]))

\* C35: when add_from_source(ZipFile(w.zip)) runs into no error, every entity
\* that find_subcrate_metadata_in_zip matched is indexed as a crate of its own:
\* the returned tree has as many subcrates, with different ids, as there are
\* matches in different directories
SiblingSubcratesGetDistinctIds ==
  ( /\ last.op = "add_zip" /\ last.arg = TwinName
    /\ last.ok /\ last.fresh /\ NoFault )
  => /\ Cardinality({EntryDir(TwinMatches[i].entry) : i \in DOMAIN TwinMatches}) = 2
     /\ Cardinality({last.res.subcrates[i].crate_id : i \in DOMAIN last.res.subcrates})
          = Len(TwinMatches)

\* C36: for a URL crate base_url is the crate id followed by '/', the same for
\* Url(u) and for UrlSubcrate with the metadata URL u, and the subcrate ./x/ of
\* the crate is resolved to <crate id>/x/ro-crate-metadata.json
BaseUrlIsTheCratesDirectory ==
  probe.fn = "base_url" =>
    /\ probe.out.of_url = probe.out.crate_id \o <<SL>>
    /\ probe.out.of_subcrate = probe.out.of_url
    /\ probe.out.x_of_url = probe.out.crate_id \o <<SL, "x", SL, META>>
    /\ probe.out.x_of_subcrate = probe.out.x_of_url

\* the same of UrlSubcrate alone, for a metadata URL that names the file
\* ro-crate-metadata.json in the crate's directory
SubcrateBaseUrlIsTheCratesDirectory ==
  (probe.fn = "base_url" /\ EndsWith(probe.x, <<"a", SL, META>>)) =>
    /\ probe.out.of_subcrate = probe.out.crate_id \o <<SL>>
    /\ probe.out.x_of_subcrate = probe.out.crate_id \o <<SL, "x", SL, META>>

\* the call that has just returned is an add_from_source that returned Err
AddFromSourceFailed ==
  last'.op \in {"add_url", "add_zip", "add_dir"} /\ ~last'.ok

\* the call that has just returned did not get past loading its crate: it logged
\* no step of the pipeline and no error but one of the load
StoppedAtLoad ==
  \A i \in DOMAIN log' :
    \/ log'[i].ev \in {"fetch", "load"}
    \/ log'[i].ev = "fault" /\ log'[i].arg.point = "load"

\* C37 as stated: when add_from_source returns Err for the top-level crate, the
\* manifest, the Store, the committed FTS documents and the metadata files are
\* the same as before the call
FailedAddChangesNothing ==
  [][ AddFromSourceFailed => IndexUnchanged ]_vars

\* C37 as amended: when add_from_source returns Err for the top-level crate
\* because the crate could not be loaded, the manifest, the Store, the committed
\* FTS documents and the metadata files are the same as before the call
FailedLoadChangesNothing ==
  [][ (AddFromSourceFailed /\ StoppedAtLoad) => IndexUnchanged ]_vars

\* add_from_source of the URL that cannot be fetched returned Err while A was
\* indexed
UnreachableUrlRefused ==
  /\ last.op = "add_url" /\ ~last.ok /\ last.id = IdD
  /\ \A i \in DOMAIN log : log[i].ev \in {"fetch", "load"}
  /\ IdA \in manifest /\ IdA \in store /\ IdA \in files
  /\ DocsOf(fts, IdA) # EmptyBag

====
